---- MODULE Spec2Model ----
(***************************************************************************)
(* Model of the label-processing functions of fidoogle/process-label:      *)
(*   - the blocking handlers (netlify/functions/process-label.js and its   *)
(*     revision with linear backoff), which submit an image and poll the   *)
(*     provider inside one invocation;                                     *)
(*   - the client-polled handlers (process-label.js.new and                *)
(*     process-label-simple.js) with checkPredictionStatus, driven by the  *)
(*     browser loop pollForResults.                                        *)
(* One flow (one uploaded image) is followed from the request to the       *)
(* result the browser script ends with.                                    *)
(***************************************************************************)
EXTENDS Integers, Sequences, FiniteSets, TLC

---------------------------------------------------------------------------
(* The handler revisions of the repository.                                *)

HBlocking == "process-label.js"
HBackoff  == "part_002"
HPolled   == "process-label.js.new"
HSimple   == "process-label-simple.js"

Handlers == {HBlocking, HBackoff, HPolled, HSimple}

IsBlocking(h) == h \in {HBlocking, HBackoff}

(* const maxRetries of each poll loop *)
MaxRetriesBlocking == 10
MaxRetriesBackoff  == 20
MaxRetriesClient   == 15

(* a loop test that lets one more iteration through: retries <= maxRetries *)
maxRetriesInclusive(h) ==
  CASE h = HBlocking -> MaxRetriesBlocking + 1
    [] h = HBackoff  -> MaxRetriesBackoff + 1
    [] OTHER         -> MaxRetriesClient + 1

maxRetries(h) ==
  CASE h = HBlocking -> MaxRetriesBlocking
    [] h = HBackoff  -> MaxRetriesBackoff
    [] OTHER         -> MaxRetriesClient

(* the wait after an in-progress status: setTimeout(resolve, ...) *)
BaseDelayMs        == 1000
DelayGrowthBackoff == 500
ErrorDelayBlocking == 1000
ErrorDelayBackoff  == 2000
ClientDelayMs      == 2000

(* [functions.process-label] timeout = 26, in ms *)
FunctionTimeoutMs == 26000

delayGrowthMs(h) == IF h = HBackoff THEN DelayGrowthBackoff ELSE 0

waitTime(h, r) == BaseDelayMs + (r * delayGrowthMs(h))

errorWait(h) == IF h = HBackoff THEN ErrorDelayBackoff ELSE ErrorDelayBlocking

---------------------------------------------------------------------------
(* Values the provider puts in statusData.output.  A value is a record     *)
(* [type, str, num, text]: str is the string itself, the first element of  *)
(* an array, or the caption property of an object; num is the number, or   *)
(* the length of an array; text is the text property of an object.  An     *)
(* absent property is "".                                                  *)

OutString(s) == [type |-> "string", str |-> s,  num |-> 0, text |-> ""]
OutNull      == [type |-> "null",   str |-> "", num |-> 0, text |-> ""]
OutNumber(n) == [type |-> "number", str |-> "", num |-> n, text |-> ""]
OutArray(n, first) == [type |-> "array", str |-> first, num |-> n, text |-> ""]
OutObject(caption, text) ==
  [type |-> "object", str |-> caption, num |-> 0, text |-> text]

(* a caption of 210 characters, longer than every truncation of the code *)
Line42 == "FROM ACME INC 123 MAIN STREET AUSTIN TX 78"
LongCaption == Line42 \o Line42 \o Line42 \o Line42 \o Line42

Outputs ==
  { OutString("Caption: a shipping label"), OutString(""),
    OutString(LongCaption), OutNull,
    OutNumber(0), OutNumber(7),
    OutArray(1, "a box with a label"), OutArray(0, ""),
    OutObject("a parcel", "parcel text"), OutObject("", "only text"),
    OutObject("", "") }

(* JavaScript truthiness, as used by `if (!result)` and `a || b`            *)
Truthy(o) ==
  CASE o.type = "string" -> o.str # ""
    [] o.type = "null"   -> FALSE
    [] o.type = "number" -> o.num # 0
    [] OTHER             -> TRUE

(* JSON.stringify of an output value *)
NumText(n) == IF n = 0 THEN "0" ELSE "7"

Stringify(o) ==
  CASE o.type = "string" -> "\"" \o o.str \o "\""
    [] o.type = "null"   -> "null"
    [] o.type = "number" -> NumText(o.num)
    [] o.type = "array"  -> IF o.num = 0 THEN "[]" ELSE "[\"" \o o.str \o "\"]"
    [] OTHER             ->
         LET c == IF o.str = "" THEN "" ELSE "\"caption\":\"" \o o.str \o "\""
             t == IF o.text = "" THEN "" ELSE "\"text\":\"" \o o.text \o "\""
         IN  "{" \o c \o (IF c # "" /\ t # "" THEN "," ELSE "") \o t \o "}"

---------------------------------------------------------------------------
(* What one GET /v1/predictions/<id> can do.                               *)

Statuses == {"starting", "processing", "canceled", "succeeded", "failed"}

ErrorDetails == {"", "CUDA out of memory"}

StatusReply(k, t, s, o, e) ==
  [kind |-> k, textOk |-> t, status |-> s, output |-> o, error |-> e]

NoReply == StatusReply("none", TRUE, "", OutNull, "")

StatusReplies ==
  { StatusReply("throw", TRUE, "", OutNull, ""),
    StatusReply("badjson", TRUE, "", OutNull, "") }
  \cup { StatusReply("nonok", t, "", OutNull, "") : t \in BOOLEAN }
  \cup { StatusReply("ok", TRUE, s, OutNull, "") :
           s \in {"starting", "processing", "canceled"} }
  \cup { StatusReply("ok", TRUE, "succeeded", o, "") : o \in Outputs }
  \cup { StatusReply("ok", TRUE, "failed", OutNull, e) : e \in ErrorDetails }

IsStatus(r, s) == r.kind = "ok" /\ r.status = s

InProgress(r) == r.kind = "ok" /\ r.status \notin {"succeeded", "failed"}

(* a status check that itself fails: non-2xx, transport error, bad body *)
CheckFailed(r) == r.kind \in {"throw", "nonok", "badjson"}

---------------------------------------------------------------------------
(* What the POST /v1/predictions of a submission can do.                   *)

PredictionId == "p1"

(* body is the text of a non-2xx reply, status and id the fields of the    *)
(* prediction a 2xx reply carries                                          *)
CreateReply(k, t, b, s, i) ==
  [kind |-> k, textOk |-> t, body |-> b, status |-> s, id |-> i]

NoCreate == CreateReply("none", TRUE, "", "", "")

OkCreate(s) == CreateReply("ok", TRUE, "", s, PredictionId)

CreateReplies ==
  { CreateReply("throw", TRUE, "", "", ""),
    CreateReply("badjson", TRUE, "", "", "") }
  \cup { CreateReply("nonok", t, "Invalid version or not permitted", "", "") :
            t \in BOOLEAN }
  \cup { OkCreate(s) : s \in {"starting", "processing"} }

---------------------------------------------------------------------------
(* Handler responses: statusCode and the fields of the JSON body.  error   *)
(* is the fixed text of body.error, detail the interpolated part.          *)

(* caption is the text the extraction worked from (modelOutput of the      *)
(* blocking handlers, data.fullText of extractInformationFromText), "" in  *)
(* a response built without extraction.                                    *)
Response(code, err, det, desc, st, id, out) ==
  [statusCode |-> code, error |-> err, detail |-> det, description |-> desc,
   status |-> st, predictionId |-> id, modelOutput |-> out, caption |-> ""]

WithCaption(resp, c) == [resp EXCEPT !.caption = c]

NoResponse == Response(0, "", "", "", "", "", OutNull)

ErrorResponse(code, err, det) == Response(code, err, det, "", "", "", OutNull)

TimedOutError == "Timed out waiting for prediction result"
PredictionFailedError == "Prediction failed"
UnknownError == "Unknown error"

TimedOutResponse == ErrorResponse(500, TimedOutError, "")

(* `${statusData.error || 'Unknown error'}` *)
ErrorDetailOf(r) == IF r.error # "" THEN r.error ELSE UnknownError

(* a failed prediction reported with the message of the timeout *)
PredictionFailedAsTimeout(h, r) == TimedOutResponse

PredictionFailedResponse(h, r) ==
  IF h = HSimple
    THEN ErrorResponse(500, PredictionFailedError, "")
    ELSE ErrorResponse(500, PredictionFailedError, ErrorDetailOf(r))

(* s.substring(a, b) *)
Substring(s, a, b) ==
  IF Len(s) <= a THEN ""
  ELSE SubSeq(s, a + 1, IF Len(s) < b THEN Len(s) ELSE b)

(* modelOutput of the blocking handlers, from the raw result *)
NormalizeOutput(h, result) ==
  IF result.type = "string" THEN result.str
  ELSE IF result.type = "array" /\ result.num > 0 THEN result.str
  ELSE IF result.type \in {"array", "object"}
    THEN IF result.str # "" THEN result.str
         ELSE IF result.text # "" THEN result.text
         ELSE Stringify(result)
  ELSE IF h = HBackoff THEN Stringify(result) ELSE ""

NoDescription == "No description available"

(* the timeout thrown instead of returned: the outer catch answers *)
AfterLoopThrows(h, result) ==
  IF ~Truthy(result)
    THEN ErrorResponse(500, "Server error", TimedOutError)
    ELSE Response(200, "", "", NoDescription, "", "", OutNull)

(* the code after the loop without its test of result *)
AfterLoopResultUnchecked(h, result) ==
  LET modelOutput == NormalizeOutput(h, result)
      description == IF modelOutput # "" THEN modelOutput ELSE NoDescription
  IN  WithCaption(Response(200, "", "", description, "", "", OutNull),
                  modelOutput)

(* the code of a blocking handler after its while loop *)
AfterLoop(h, result) ==
  IF ~Truthy(result)
    THEN TimedOutResponse
    ELSE LET modelOutput == NormalizeOutput(h, result)
             description == IF modelOutput # "" THEN modelOutput ELSE NoDescription
         IN  WithCaption(Response(200, "", "", description, "", "", OutNull),
                         modelOutput)

(* processCompletedPrediction: extractInformationFromText starts with      *)
(* text.substring(0, 200), a TypeError unless the output is a string       *)
(* the extraction keeping the truncated text as its full text *)
processCompletedTruncated(result) ==
  IF result.type # "string"
    THEN ErrorResponse(500, "Error processing prediction result", "TypeError")
    ELSE WithCaption(Response(200, "", "", Substring(result.str, 0, 200) \o "...",
                              "", "", result),
                     Substring(result.str, 0, 200))

processCompletedPrediction(result) ==
  IF result.type # "string"
    THEN ErrorResponse(500, "Error processing prediction result", "TypeError")
    ELSE WithCaption(Response(200, "", "", Substring(result.str, 0, 200) \o "...",
                              "", "", result),
                     result.str)

StillProcessing(r) ==
  Response(202, "", "", "", r.status, PredictionId, OutNull)

(* a status check that reports a cancelled job as a failed one *)
checkPredictionStatusCanceledFails(h, r) ==
  IF h = HSimple
    THEN CASE r.kind \in {"throw", "badjson"} -> ErrorResponse(500, "Error", r.kind)
           [] r.kind = "nonok" -> ErrorResponse(500, "Error checking prediction status", "")
           [] IsStatus(r, "succeeded") ->
                Response(200, "", "", "Shipping label processed successfully",
                         "", "", r.output)
           [] IsStatus(r, "failed") \/ IsStatus(r, "canceled") ->
                PredictionFailedResponse(h, r)
           [] OTHER -> StillProcessing(r)
    ELSE CASE CheckFailed(r) -> ErrorResponse(500, "Error checking prediction", r.kind)
           [] IsStatus(r, "succeeded") -> processCompletedPrediction(r.output)
           [] IsStatus(r, "failed") \/ IsStatus(r, "canceled") ->
                PredictionFailedResponse(h, r)
           [] OTHER -> StillProcessing(r)

(* a status check without a catch block: a thrown error leaves the         *)
(* invocation without a response                                           *)
checkPredictionStatusUncaught(h, r) ==
  IF h = HSimple
    THEN CASE r.kind \in {"throw", "badjson"} -> NoResponse
           [] r.kind = "nonok" -> ErrorResponse(500, "Error checking prediction status", "")
           [] IsStatus(r, "succeeded") ->
                Response(200, "", "", "Shipping label processed successfully",
                         "", "", r.output)
           [] IsStatus(r, "failed") -> PredictionFailedResponse(h, r)
           [] OTHER -> StillProcessing(r)
    ELSE CASE r.kind \in {"throw", "badjson"} -> NoResponse
           [] CheckFailed(r) -> ErrorResponse(500, "Error checking prediction", r.kind)
           [] IsStatus(r, "succeeded") -> processCompletedPrediction(r.output)
           [] IsStatus(r, "failed") -> PredictionFailedResponse(h, r)
           [] OTHER -> StillProcessing(r)

(* checkPredictionStatus of process-label.js.new and the ?predictionId     *)
(* branch of process-label-simple.js: one status request, one response     *)
checkPredictionStatus(h, r) ==
  IF h = HSimple
    THEN CASE r.kind \in {"throw", "badjson"} -> ErrorResponse(500, "Error", r.kind)
           [] r.kind = "nonok" -> ErrorResponse(500, "Error checking prediction status", "")
           [] IsStatus(r, "succeeded") ->
                Response(200, "", "", "Shipping label processed successfully",
                         "", "", r.output)
           [] IsStatus(r, "failed") -> PredictionFailedResponse(h, r)
           [] OTHER -> StillProcessing(r)
    ELSE CASE CheckFailed(r) -> ErrorResponse(500, "Error checking prediction", r.kind)
           [] IsStatus(r, "succeeded") -> processCompletedPrediction(r.output)
           [] IsStatus(r, "failed") -> PredictionFailedResponse(h, r)
           [] OTHER -> StillProcessing(r)

(* the handler up to the end of the create-job call; "poll" stands for the *)
(* blocking handler going on to its while loop                             *)
ConfigError == "Replicate API key configuration error"

NoImageError == "No image uploaded or could not parse image data"

MissingKeyError == "Missing Replicate API key"

(* the key lookup: process.env, then the x-replicate-api-key header and    *)
(* the api_key / apiKey query parameters; the simple handler reads         *)
(* process.env only                                                        *)
KeyFound(h, inEnv, inRequest) ==
  IF h = HSimple THEN inEnv ELSE inEnv \/ inRequest

(* the key in use was taken from the request: the request is looked at    *)
(* only when process.env gave none                                         *)
KeyFromRequest(h, inEnv, inRequest) ==
  h # HSimple /\ ~inEnv /\ inRequest

CreateFailure(cr) ==
  CASE cr.kind = "throw"   -> ErrorResponse(500, "API call failed", "fetch failed")
    [] cr.kind = "nonok"   ->
         IF cr.textOk THEN ErrorResponse(500, "Replicate API error", cr.body)
         ELSE ErrorResponse(500, "Failed to read error response", "")
    [] cr.kind = "badjson" -> ErrorResponse(500, "Failed to parse API response", "")
    [] OTHER               -> NoResponse

(* the handler going to its create call without the test of the key *)
SubmitFailureKeyUnchecked(h, hasKey, hasImage, cr) ==
  IF h = HSimple
    THEN IF cr.kind \in {"throw", "badjson"}
           THEN ErrorResponse(500, "Error", cr.kind)
         ELSE IF cr.kind = "nonok"
           THEN ErrorResponse(500, "Error starting prediction", "")
         ELSE NoResponse
  ELSE IF ~hasImage THEN ErrorResponse(400, NoImageError, "")
       ELSE CreateFailure(cr)

SubmitFailure(h, hasKey, hasImage, cr) ==
  IF h = HSimple
    THEN IF ~hasKey THEN ErrorResponse(500, MissingKeyError, "")
         ELSE IF cr.kind \in {"throw", "badjson"}
           THEN ErrorResponse(500, "Error", cr.kind)
         ELSE IF cr.kind = "nonok"
           THEN ErrorResponse(500, "Error starting prediction", "")
         ELSE NoResponse
  ELSE IF h = HPolled
    THEN IF ~hasKey THEN ErrorResponse(500, ConfigError, "")
         ELSE IF ~hasImage THEN ErrorResponse(400, NoImageError, "")
         ELSE CreateFailure(cr)
  ELSE IF ~hasImage THEN ErrorResponse(400, NoImageError, "")
       ELSE IF ~hasKey THEN ErrorResponse(500, ConfigError, "")
       ELSE CreateFailure(cr)

(* the handler reaches its POST /v1/predictions: no early return precedes  *)
(* the fetch                                                               *)
CreateCalled(h, hasKey, hasImage) ==
  SubmitFailure(h, hasKey, hasImage, OkCreate("starting")) = NoResponse

(* the 202 with a status of the handler's own *)
AcceptedFixedStatus(cr) ==
  Response(202, "", "", "", "starting", cr.id, OutNull)

Accepted(cr) ==
  Response(202, "", "", "", cr.status, cr.id, OutNull)

(* a GET with ?predictionId: the key lookup, then checkPredictionStatus *)
checkJob(h, hasKey, r) ==
  IF ~hasKey
    THEN ErrorResponse(500, IF h = HSimple THEN MissingKeyError ELSE ConfigError, "")
    ELSE checkPredictionStatus(h, r)

---------------------------------------------------------------------------
(* Captions as text: characters, String.prototype.match and the string     *)
(* methods the extraction uses.                                            *)

UpperLetters == "ABCDEFGHIJKLMNOPQRSTUVWXYZ"
LowerLetters == "abcdefghijklmnopqrstuvwxyz"
DigitChars == "0123456789"

CharsOf(s) == { SubSeq(s, i, i) : i \in 1..Len(s) }

(* [A-Z], [a-z], \d, \s and \w *)
Upper == CharsOf(UpperLetters)
Lower == CharsOf(LowerLetters)
Digit == CharsOf(DigitChars)
Letter == Upper \cup Lower
Space == {" ", "\n", "\t", "\r"}
Word == Letter \cup Digit \cup {"_"}

OtherCase(c) ==
  IF c \in Upper
    THEN LET i == CHOOSE k \in 1..Len(UpperLetters) : SubSeq(UpperLetters, k, k) = c
         IN  SubSeq(LowerLetters, i, i)
  ELSE IF c \in Lower
    THEN LET i == CHOOSE k \in 1..Len(LowerLetters) : SubSeq(LowerLetters, k, k) = c
         IN  SubSeq(UpperLetters, i, i)
  ELSE c

(* a character class under the i flag *)
IgnoreCase(cls) == cls \cup { OtherCase(c) : c \in cls }

(* Nodes of a regular expression.  chr: one character of cls; not: one     *)
(* character outside cls; seq, alt: concatenation and | of subs; rep:      *)
(* greedy {min,max}, or {min,} when inf; grp: capturing group grp; wb: \b; *)
(* bol: ^ under the m flag.                                                *)
RxNode(o, c, subs, lo, hi, inf, g) ==
  [op |-> o, cls |-> c, subs |-> subs, min |-> lo, max |-> hi, inf |-> inf,
   grp |-> g]

RxChr(cls) == RxNode("chr", cls, <<>>, 0, 0, FALSE, 0)
RxNot(cls) == RxNode("not", cls, <<>>, 0, 0, FALSE, 0)
RxSeq(subs) == RxNode("seq", {}, subs, 0, 0, FALSE, 0)
RxAlt(subs) == RxNode("alt", {}, subs, 0, 0, FALSE, 0)
RxRep(sub, lo, hi) == RxNode("rep", {}, <<sub>>, lo, hi, FALSE, 0)
RxMany(sub, lo) == RxNode("rep", {}, <<sub>>, lo, 0, TRUE, 0)
RxOpt(sub) == RxRep(sub, 0, 1)
RxGroup(g, sub) == RxNode("grp", {}, <<sub>>, 0, 0, FALSE, g)
RxWordB == RxNode("wb", {}, <<>>, 0, 0, FALSE, 0)
RxLineStart == RxNode("bol", {}, <<>>, 0, 0, FALSE, 0)

(* a literal, and a literal under the i flag *)
RxLit(w) == RxSeq([i \in 1..Len(w) |-> RxChr({SubSeq(w, i, i)})])
RxLitI(w) == RxSeq([i \in 1..Len(w) |-> RxChr(IgnoreCase({SubSeq(w, i, i)}))])

(* the most capturing groups of one expression *)
MaxGroups == 4

(* A match in progress or found: start and pos are 1-based, pos the next   *)
(* character to read; caps[g] is <<first, next>> of group g.               *)
RxState(ok, from, pos, caps) ==
  [ok |-> ok, start |-> from, pos |-> pos, caps |-> caps]

RxFail == RxState(FALSE, 0, 0, [g \in 1..MaxGroups |-> <<0, 0>>])

RxStart(i) == RxState(TRUE, i, i, [g \in 1..MaxGroups |-> <<0, 0>>])

IsWordAt(s, i) == i >= 1 /\ i <= Len(s) /\ SubSeq(s, i, i) \in Word

(* node n, a chr or a not, takes the character at i *)
Takes(n, s, i) ==
  /\ i >= 1 /\ i <= Len(s)
  /\ (n.op = "chr" => SubSeq(s, i, i) \in n.cls)
  /\ (n.op = "not" => SubSeq(s, i, i) \notin n.cls)

(* the first position in lo..hi that n does not take, hi + 1 if none *)
RECURSIVE FirstNotTaken(_, _, _, _)
RECURSIVE FirstNotTakenRight(_, _, _, _, _)
FirstNotTaken(n, s, lo, hi) ==
  IF lo > hi THEN lo
  ELSE IF lo = hi THEN (IF Takes(n, s, lo) THEN hi + 1 ELSE lo)
  ELSE FirstNotTakenRight(n, s, (lo + hi) \div 2, hi,
                          FirstNotTaken(n, s, lo, (lo + hi) \div 2))

FirstNotTakenRight(n, s, mid, hi, left) ==
  IF left <= mid THEN left ELSE FirstNotTaken(n, s, mid + 1, hi)

(* the sequences seqs[lo..hi] one after the other *)
RECURSIVE Flat(_, _, _)
Flat(seqs, lo, hi) ==
  IF lo > hi THEN <<>>
  ELSE IF lo = hi THEN seqs[lo]
  ELSE Flat(seqs, lo, (lo + hi) \div 2) \o Flat(seqs, (lo + hi) \div 2 + 1, hi)

(* the ends of a greedy repetition of one character class that can take    *)
(* run characters from st: the longest first                               *)
RepeatedChr(n, st, run) ==
  IF n.inf \/ run < n.max
    THEN (IF run < n.min THEN <<>>
          ELSE [k \in 1..(run - n.min + 1) |-> [st EXCEPT !.pos = @ + run - k + 1]])
    ELSE [k \in 1..(n.max - n.min + 1) |-> [st EXCEPT !.pos = @ + n.max - k + 1]]

(* group g, entered at position from, closed at each of the states inner *)
Captured(g, from, inner) ==
  [k \in 1..Len(inner) |-> [inner[k] EXCEPT !.caps[g] = <<from, inner[k].pos>>]]

(* The backtracking matcher.  RxAll gives every way node n matches at      *)
(* state st, in the order backtracking tries them: the earlier alternative *)
(* first, the longer repetition first.  RxThen matches the nodes of subs   *)
(* one after the other from each of states; RxEach matches n from each of  *)
(* states.                                                                 *)
RECURSIVE RxAll(_, _, _)
RECURSIVE RxThen(_, _, _)
RECURSIVE RxEach(_, _, _)
RxAll(n, s, st) ==
  CASE n.op \in {"chr", "not"} ->
         IF Takes(n, s, st.pos) THEN <<[st EXCEPT !.pos = @ + 1]>> ELSE <<>>
    [] n.op = "seq" -> RxThen(n.subs, s, <<st>>)
    [] n.op = "alt" ->
         Flat([k \in 1..Len(n.subs) |-> RxAll(n.subs[k], s, st)], 1, Len(n.subs))
    [] n.op = "rep" /\ n.subs[1].op \in {"chr", "not"} ->
         RepeatedChr(n, st, FirstNotTaken(n.subs[1], s, st.pos, Len(s)) - st.pos)
    [] n.op = "rep" /\ n.subs[1].op \notin {"chr", "not"} ->
         (IF n.inf \/ n.max > 0
            THEN RxEach([n EXCEPT !.min = IF @ > 0 THEN @ - 1 ELSE 0,
                                  !.max = IF @ > 0 THEN @ - 1 ELSE 0],
                        s, RxAll(n.subs[1], s, st))
            ELSE <<>>)
         \o (IF n.min = 0 THEN <<st>> ELSE <<>>)
    [] n.op = "grp" -> Captured(n.grp, st.pos, RxAll(n.subs[1], s, st))
    [] n.op = "wb" ->
         IF IsWordAt(s, st.pos - 1) # IsWordAt(s, st.pos) THEN <<st>> ELSE <<>>
    [] OTHER ->
         IF st.pos = 1 \/ SubSeq(s, st.pos - 1, st.pos - 1) = "\n"
           THEN <<st>> ELSE <<>>

RxEach(n, s, states) ==
  Flat([k \in 1..Len(states) |-> RxAll(n, s, states[k])], 1, Len(states))

RxThen(subs, s, states) ==
  IF Len(subs) = 0 \/ Len(states) = 0 THEN states
  ELSE RxThen(Tail(subs), s, RxEach(Head(subs), s, states))

(* the first of the matches all, RxFail if there is none *)
FirstOf(all) == IF Len(all) = 0 THEN RxFail ELSE all[1]

(* the match backtracking finds first when started at i *)
RxAt(re, s, i) == FirstOf(RxAll(re, s, RxStart(i)))

(* the match at the leftmost start in lo..hi that has one *)
RECURSIVE RxFrom(_, _, _, _)
RECURSIVE RxFromRight(_, _, _, _, _)
RxFrom(re, s, lo, hi) ==
  IF lo > hi THEN RxFail
  ELSE IF lo = hi THEN RxAt(re, s, lo)
  ELSE RxFromRight(re, s, (lo + hi) \div 2, hi, RxFrom(re, s, lo, (lo + hi) \div 2))

RxFromRight(re, s, mid, hi, left) ==
  IF left.ok THEN left ELSE RxFrom(re, s, mid + 1, hi)

(* text.match(re): the leftmost match, RxFail for null.  With the g flag   *)
(* element 0 of the result is the same match.                              *)
Match(s, re) == RxFrom(re, s, 1, Len(s) + 1)

(* match[0] and match[g] *)
MatchText(s, m) == SubSeq(s, m.start, m.pos - 1)

GroupText(s, m, g) == SubSeq(s, m.caps[g][1], m.caps[g][2] - 1)

(* String.prototype.trim *)
RECURSIVE TrimLeft(_)
TrimLeft(s) ==
  IF Len(s) > 0 /\ SubSeq(s, 1, 1) \in Space
    THEN TrimLeft(SubSeq(s, 2, Len(s))) ELSE s

RECURSIVE TrimRight(_)
TrimRight(s) ==
  IF Len(s) > 0 /\ SubSeq(s, Len(s), Len(s)) \in Space
    THEN TrimRight(SubSeq(s, 1, Len(s) - 1)) ELSE s

Trim(s) == TrimLeft(TrimRight(s))

(* s.includes(w) *)
Includes(s, w) ==
  \E i \in 1..(Len(s) - Len(w) + 1) : SubSeq(s, i, i + Len(w) - 1) = w

(* s.split(c) for a separator of one character: the piece from position  *)
(* from to the next c at p, then the pieces after it                       *)
RECURSIVE SplitFrom(_, _, _)
RECURSIVE SplitAt(_, _, _, _)
SplitFrom(s, c, from) ==
  SplitAt(s, c, from, FirstNotTaken(RxNot({c}), s, from, Len(s)))

SplitAt(s, c, from, p) ==
  IF p > Len(s) THEN <<SubSeq(s, from, Len(s))>>
  ELSE <<SubSeq(s, from, p - 1)>> \o SplitFrom(s, c, p + 1)

Split(s, c) == SplitFrom(s, c, 1)

(* words.join(' ') *)
RECURSIVE Join(_)
Join(words) ==
  IF Len(words) = 0 THEN ""
  ELSE IF Len(words) = 1 THEN words[1]
  ELSE words[1] \o " " \o Join(Tail(words))

(* array.findIndex(p) with p = element.includes(w), counted from 1, and   *)
(* 0 for -1                                                                *)
FindIndexIncluding(parts, w) ==
  IF \E i \in 1..Len(parts) : Includes(parts[i], w)
    THEN CHOOSE i \in 1..Len(parts) :
           /\ Includes(parts[i], w)
           /\ \A j \in 1..(i - 1) : ~Includes(parts[j], w)
    ELSE 0

(* array[i], '' for none *)
ElementOr(parts, i) == IF i = 0 THEN "" ELSE parts[i]

(* array.find(p) || '' *)
FindIncluding(parts, w) == ElementOr(parts, FindIndexIncluding(parts, w))

---------------------------------------------------------------------------
(* The record of an extraction.  A handler leaves the fields it has no     *)
(* rule for at "".                                                         *)

Fields ==
  {"description", "fullText", "senderName", "recipientName", "trackingNumber",
   "serviceType", "weight", "addressLine", "city", "state", "zip",
   "companyName", "permitNumber", "refNumber"}

EmptyRecord == [f \in Fields |-> ""]

(* ---- extractInformationFromText of process-label.js.new ---- *)

(* [0-9A-Z] under the i flag *)
AlphaNum == IgnoreCase(Digit \cup Upper)

OptSpace == RxOpt(RxChr({" "}))

UpsPattern ==
  RxSeq(<<RxWordB,
          RxGroup(1, RxSeq(<<RxLitI("1Z"), OptSpace,
                             RxRep(RxChr(AlphaNum), 3, 3), OptSpace,
                             RxRep(RxChr(AlphaNum), 3, 3), OptSpace,
                             RxRep(RxChr(AlphaNum), 2, 2), OptSpace,
                             RxRep(RxChr(AlphaNum), 4, 4), OptSpace,
                             RxRep(RxChr(AlphaNum), 3, 3), OptSpace,
                             RxChr(AlphaNum)>>)),
          RxWordB>>)

UspsPattern ==
  RxSeq(<<RxWordB,
          RxGroup(1, RxSeq(<<RxGroup(2, RxAlt(<<RxSeq(<<RxLit("98"), RxChr(Digit),
                                                       RxChr(Digit)>>),
                                               RxRep(RxChr(Digit), 4, 4)>>)),
                             OptSpace, RxRep(RxChr(Digit), 4, 4),
                             OptSpace, RxRep(RxChr(Digit), 4, 4),
                             OptSpace, RxRep(RxChr(Digit), 4, 4),
                             OptSpace, RxRep(RxChr(Digit), 4, 4),
                             OptSpace, RxRep(RxChr(Digit), 2, 2)>>)),
          RxWordB>>)

FedexPattern ==
  RxSeq(<<RxWordB, RxGroup(1, RxRep(RxChr(Digit), 12, 14)), RxWordB>>)

InternationalPattern ==
  RxSeq(<<RxWordB,
          RxGroup(1, RxSeq(<<RxRep(RxChr(Letter), 2, 2),
                             RxRep(RxChr(Digit), 9, 9),
                             RxRep(RxChr(Letter), 2, 2)>>)),
          RxWordB>>)

trackingPatterns ==
  <<UpsPattern, UspsPattern, FedexPattern, InternationalPattern>>

(* for (const pattern of trackingPatterns): the match of the first pattern *)
(* that matches, '' when none does                                         *)
RECURSIVE TrackingFrom(_, _)
RECURSIVE TrackingOr(_, _, _)
TrackingFrom(text, k) ==
  IF k > Len(trackingPatterns) THEN ""
  ELSE TrackingOr(text, k, Match(text, trackingPatterns[k]))

TrackingOr(text, k, match) ==
  IF match.ok THEN MatchText(text, match) ELSE TrackingFrom(text, k + 1)

(* /Keyword:?([^\n]+)/i *)
LabelledLine(keyword) ==
  RxSeq(<<RxLitI(keyword), RxOpt(RxChr({":"})),
          RxGroup(1, RxMany(RxNot({"\n"}), 1))>>)

(* /Ship\s+From:?([^\n]+)/i and its like *)
LabelledLine2(first, second) ==
  RxSeq(<<RxLitI(first), RxMany(RxChr(Space), 1), LabelledLine(second)>>)

(* a || b on match results *)
OrMatch(a, b) == IF a.ok THEN a ELSE b

(* the second weight rule: digits with an optional point, optional        *)
(* spaces, then lbs, kg or oz, under the i flag                            *)
WeightPattern ==
  RxSeq(<<RxGroup(1, RxSeq(<<RxMany(RxChr(Digit), 1), RxOpt(RxChr({"."})),
                             RxMany(RxChr(Digit), 0)>>)),
          RxMany(RxChr(Space), 0),
          RxGroup(2, RxAlt(<<RxLitI("lbs"), RxLitI("kg"), RxLitI("oz")>>))>>)

(* match ? match[g].trim() : '' *)
TrimmedGroup(text, match, g) ==
  IF match.ok THEN Trim(GroupText(text, match, g)) ELSE ""

(* match ? match[0].trim() : '' *)
TrimmedMatch(text, match) ==
  IF match.ok THEN Trim(MatchText(text, match)) ELSE ""

(* the extraction giving up at the first rule that finds no match *)
extractStoppingAtNoMatch(text) ==
  IF TrackingFrom(text, 1) = ""
    THEN [EmptyRecord EXCEPT !.description = Substring(text, 0, 200) \o "...",
                             !.fullText = text]
    ELSE [EmptyRecord EXCEPT
            !.description = Substring(text, 0, 200) \o "...",
            !.fullText = text,
            !.trackingNumber = TrackingFrom(text, 1),
            !.senderName = TrimmedGroup(text, Match(text, LabelledLine("From")), 1),
            !.recipientName = TrimmedGroup(text, Match(text, LabelledLine("To")), 1),
            !.serviceType = TrimmedGroup(text, Match(text, LabelledLine("Service")), 1),
            !.weight = TrimmedMatch(text, Match(text, LabelledLine("Weight")))]

extractInformationFromText(text) ==
  [EmptyRecord EXCEPT
     !.description = Substring(text, 0, 200) \o "...",
     !.fullText = text,
     !.trackingNumber = TrackingFrom(text, 1),
     !.senderName =
        TrimmedGroup(text,
                     OrMatch(Match(text, LabelledLine("From")),
                             OrMatch(Match(text, LabelledLine("Sender")),
                                     Match(text, LabelledLine2("Ship", "From")))),
                     1),
     !.recipientName =
        TrimmedGroup(text,
                     OrMatch(Match(text, LabelledLine("To")),
                             OrMatch(Match(text, LabelledLine("Recipient")),
                                     Match(text, LabelledLine2("Ship", "To")))),
                     1),
     !.serviceType =
        TrimmedGroup(text,
                     OrMatch(Match(text, LabelledLine("Service")),
                             Match(text, LabelledLine2("Service", "Type"))),
                     1),
     !.weight =
        TrimmedMatch(text,
                     OrMatch(Match(text, LabelledLine("Weight")),
                             Match(text, WeightPattern)))]

(* ---- the parsing of the description in part_002 ---- *)

(* /\b\d{6,}\b/g *)
DigitRunPattern == RxSeq(<<RxWordB, RxMany(RxChr(Digit), 6), RxWordB>>)

(* [A-Za-z0-9\s,] *)
AddressChars == Letter \cup Digit \cup Space \cup {","}

StreetWords ==
  <<"Street", "St", "Avenue", "Ave", "Road", "Rd", "Lane", "Ln", "Drive", "Dr",
    "Court", "Ct", "Boulevard", "Blvd", "Way", "Place", "Pl", "Circle", "Cir">>

AddressPattern ==
  RxGroup(1, RxSeq(<<RxMany(RxChr(AddressChars), 1), RxChr(Space),
                     RxGroup(2, RxAlt([i \in 1..Len(StreetWords) |->
                                         RxLitI(StreetWords[i])])),
                     RxChr(Space), RxMany(RxChr(AddressChars), 1)>>))

(* /([A-Za-z\s]+)\s([A-Z]{2})\s(\d{5}(-\d{4})?)/ *)
LocationPattern ==
  RxSeq(<<RxGroup(1, RxMany(RxChr(Letter \cup Space), 1)), RxChr(Space),
          RxGroup(2, RxRep(RxChr(Upper), 2, 2)), RxChr(Space),
          RxGroup(3, RxSeq(<<RxRep(RxChr(Digit), 5, 5),
                             RxOpt(RxGroup(4, RxSeq(<<RxChr({"-"}),
                                                      RxRep(RxChr(Digit), 4, 4)>>)))>>))>>)

(* /\b([A-Z]{2})\s+(\d{5})\b/ *)
SimpleZipPattern ==
  RxSeq(<<RxWordB, RxGroup(1, RxRep(RxChr(Upper), 2, 2)), RxMany(RxChr(Space), 1),
          RxGroup(2, RxRep(RxChr(Digit), 5, 5)), RxWordB>>)

(* /(Inc\.|LLC|Corp\.|Corporation|Company)/i *)
CompanyPattern ==
  RxGroup(1, RxAlt(<<RxLitI("Inc."), RxLitI("LLC"), RxLitI("Corp."),
                     RxLitI("Corporation"), RxLitI("Company")>>))

(* /^([A-Z][a-z]+ [A-Z][a-z]+)/m *)
CapitalizedNamePattern ==
  RxSeq(<<RxLineStart,
          RxGroup(1, RxSeq(<<RxChr(Upper), RxMany(RxChr(Lower), 1), RxChr({" "}),
                             RxChr(Upper), RxMany(RxChr(Lower), 1)>>))>>)

(* /Permit[:\s]*(\w+)/i and /Ref[:\s]*(\w+)/i *)
NumberAfter(keyword) ==
  RxSeq(<<RxLitI(keyword), RxMany(RxChr(Space \cup {":"}), 0),
          RxGroup(1, RxMany(RxChr(Word), 1))>>)

(* match ? match[g] : '' *)
GroupOr(text, match, g) == IF match.ok THEN GroupText(text, match, g) ELSE ""

(* companyWords.slice(Math.max(0, companyIndex - 3), companyIndex + 1)     *)
(* .join(' ') when companyIndex > 0; companyIndex counts from 1 here       *)
CompanyWordsAt(companyWords, companyIndex) ==
  IF companyIndex > 1
    THEN Join(SubSeq(companyWords,
                     IF companyIndex - 3 > 1 THEN companyIndex - 3 ELSE 1,
                     companyIndex))
    ELSE ""

CompanyWordsOf(companyWords, identifier) ==
  CompanyWordsAt(companyWords, FindIndexIncluding(companyWords, identifier))

(* up to 3 words before the company identifier, and the identifier *)
CompanyNameAround(description, identifier) ==
  CompanyWordsOf(Split(FindIncluding(Split(description, "."), identifier), " "),
                 identifier)

(* the company name: by the legal-entity word, else the capitalized name   *)
(* at a line start                                                         *)
CompanyNameOf(description, companyMatch, capitalizedNameMatch) ==
  IF companyMatch.ok
    THEN CompanyNameAround(description, MatchText(description, companyMatch))
    ELSE GroupOr(description, capitalizedNameMatch, 1)

(* city, state and zip: by the City ST 12345 shape, else ST 12345 *)
LocationOf(data, description, locationMatch, simpleZipMatch) ==
  IF locationMatch.ok
    THEN [data EXCEPT !.city = GroupText(description, locationMatch, 1),
                      !.state = GroupText(description, locationMatch, 2),
                      !.zip = GroupText(description, locationMatch, 3)]
  ELSE IF simpleZipMatch.ok
    THEN [data EXCEPT !.state = GroupText(description, simpleZipMatch, 1),
                      !.zip = GroupText(description, simpleZipMatch, 2)]
  ELSE data

(* match ? match[0] : placeholder *)
MatchOr(text, match, placeholder) ==
  IF match.ok THEN MatchText(text, match) ELSE placeholder

(* placeholder is Math.floor(Math.random() * 100000000).toString() *)
ParseDescription(description, placeholder) ==
  LocationOf(
    [EmptyRecord EXCEPT
       !.description = description,
       !.fullText = description,
       !.trackingNumber = MatchOr(description, Match(description, DigitRunPattern),
                                  placeholder),
       !.addressLine = MatchOr(description, Match(description, AddressPattern), ""),
       !.companyName = CompanyNameOf(description,
                                     Match(description, CompanyPattern),
                                     Match(description, CapitalizedNamePattern)),
       !.permitNumber = GroupOr(description,
                                Match(description, NumberAfter("Permit")), 1),
       !.refNumber = GroupOr(description, Match(description, NumberAfter("Ref")), 1)],
    description,
    Match(description, LocationPattern),
    Match(description, SimpleZipPattern))

(* process-label.js has no parsing: the description is the record *)
DescriptionOnly(description) ==
  [EmptyRecord EXCEPT !.description = description, !.fullText = description]
---------------------------------------------------------------------------
(* The markup.  A ZPL document is modelled by its lines in the order they   *)
(* are emitted: the field origin ^FOx,y, the command (XA the start marker,  *)
(* XZ the end marker, GB a rule, FD a text line, BC a barcode with its ^FD),*)
(* the font height or the thickness, the fixed text of the template and the *)
(* field data put after it.  sec names the section the line belongs to.     *)
(* The document string is these lines with the template's fixed characters  *)
(* between them, so two documents are the same bytes exactly when their     *)
(* lines are the same.                                                      *)

ZplLine(sec, cmd, x, y, size, text, data) ==
  [sec |-> sec, cmd |-> cmd, x |-> x, y |-> y, size |-> size, text |-> text,
   data |-> data]

StartMarker == ZplLine("start", "XA", 0, 0, 0, "", "")
EndMarker == ZplLine("end", "XZ", 0, 0, 0, "", "")

(* a line only when the condition holds *)
When(cond, lines) == IF cond THEN lines ELSE <<>>

(* ---- generateZPL of process-label.js.new ---- *)
generateZPL(data) ==
  LET hasSender == data.senderName # ""
      hasRecipient == data.recipientName # ""
      hasService == data.serviceType # ""
      fromY == 220
      senderY == fromY + 30
      toY == (IF hasSender THEN senderY + 30 ELSE senderY) + 20
      recipientY == toY + 30
      afterRecipient == IF hasRecipient THEN recipientY + 30 ELSE recipientY
      serviceY == IF hasService THEN afterRecipient + 20 ELSE afterRecipient
      weightY == serviceY + 30
  IN  <<StartMarker>>
      \o When(data.trackingNumber # "",
              <<ZplLine("barcode", "BC", 50, 50, 100, "", data.trackingNumber),
                ZplLine("barcode", "FD", 50, 170, 30, "", data.trackingNumber)>>)
      \o <<ZplLine("sender", "FD", 50, fromY, 25, "From:", "")>>
      \o When(hasSender,
              <<ZplLine("sender", "FD", 70, senderY, 25, "", data.senderName)>>)
      \o <<ZplLine("recipient", "FD", 50, toY, 25, "To:", "")>>
      \o When(hasRecipient,
              <<ZplLine("recipient", "FD", 70, recipientY, 25, "",
                        data.recipientName)>>)
      \o When(hasService,
              <<ZplLine("service", "FD", 50, serviceY, 25, "Service: ",
                        data.serviceType)>>)
      \o When(data.weight # "",
              <<ZplLine("weight", "FD", 50, weightY, 25, "Weight: ", data.weight)>>)
      \o <<EndMarker>>

(* ---- the label template shared by part_002 and process-label.js ---- *)

(* the rule, the banner and the rule under it *)
LabelHead(title) ==
  <<StartMarker,
    ZplLine("rule", "GB", 50, 50, 3, "", ""),
    ZplLine("banner", "FD", 50, 75, 35, "", title),
    ZplLine("rule", "GB", 50, 130, 3, "", "")>>

(* the characters of the description printed on one line *)
LineWidth == 80

(* the description block: 80 characters, and the next 80 if there are more *)
DescriptionBlock(description) ==
  <<ZplLine("description", "FD", 50, 150, 30, "Item Description:", ""),
    ZplLine("description", "FD", 50, 190, 25, "",
            Substring(description, 0, LineWidth))>>
  \o When(Len(description) > LineWidth,
          <<ZplLine("description", "FD", 50, 220, 25, "",
                    Substring(description, LineWidth, 2 * LineWidth))>>)

(* the processed-at line, the barcode and the footer; now is the pair of   *)
(* toLocaleDateString() and toLocaleTimeString()                            *)
LabelFoot(now, barcode) ==
  <<ZplLine("rule", "GB", 50, 260, 2, "", ""),
    ZplLine("processed", "FD", 50, 280, 25, "Processed: ", now[1] \o " " \o now[2]),
    ZplLine("barcode", "BC", 50, 330, 100, ">:", barcode),
    ZplLine("rule", "GB", 50, 450, 3, "", ""),
    ZplLine("footer", "FD", 50, 480, 20, "Generated by Image Analysis", ""),
    EndMarker>>

(* part_002 *)
LabelOfParsed(data, now) ==
  LET hasAddress == data.addressLine # "" \/ data.city # "" \/ data.state # ""
                    \/ data.zip # ""
  IN  LabelHead(IF data.companyName # "" THEN data.companyName ELSE "Shipping Label")
      \o (IF hasAddress
            THEN <<ZplLine("address", "FD", 50, 150, 30, "Shipping Address:", "")>>
                 \o When(data.addressLine # "",
                         <<ZplLine("address", "FD", 50, 190, 25, "",
                                   data.addressLine)>>)
                 \o When(data.city # "" \/ data.state # "" \/ data.zip # "",
                         <<ZplLine("address", "FD", 50, 220, 25, "",
                                   data.city \o " " \o data.state \o " "
                                   \o data.zip)>>)
            ELSE DescriptionBlock(data.description))
      \o When(data.permitNumber # "" \/ data.refNumber # "",
              <<ZplLine("permit", "FD", 500, 150, 25, "Permit: ",
                        IF data.permitNumber # "" THEN data.permitNumber ELSE "N/A")>>
              \o When(data.refNumber # "",
                      <<ZplLine("permit", "FD", 500, 180, 25, "Ref: ",
                                data.refNumber)>>))
      \o LabelFoot(now, data.trackingNumber)

(* process-label.js; random is                                             *)
(* Math.floor(Math.random() * 1000000000).toString().padStart(9, '0')      *)
LabelOfDescription(data, now, random) ==
  LabelHead("Shipping Label") \o DescriptionBlock(data.description)
  \o LabelFoot(now, random)

(* modelOutput || 'No description available' *)
DescriptionOf(modelOutput) ==
  IF modelOutput # "" THEN modelOutput ELSE "No description available"

(* the record handler h builds from the caption of a succeeded job *)
ExtractRecord(h, text, placeholder) ==
  CASE h = HPolled -> extractInformationFromText(text)
    [] h = HBackoff -> ParseDescription(DescriptionOf(text), placeholder)
    [] OTHER -> DescriptionOnly(DescriptionOf(text))

(* the markup handler h makes of a record *)
RenderRecord(h, data, now, random) ==
  CASE h = HPolled -> generateZPL(data)
    [] h = HBackoff -> LabelOfParsed(data, now)
    [] OTHER -> LabelOfDescription(data, now, random)

(* the 200 response: description and zpl *)
LabelResponse(h, flow, zplCode) ==
  [flow EXCEPT !.zpl = zplCode,
               !.statusCode = 200,
               !.description = IF h = HPolled /\ flow.rec.description = ""
                                 THEN "Shipping label processed successfully"
                                 ELSE flow.rec.description]
---------------------------------------------------------------------------
(* The captions the label flow is run on.                                  *)

SyntheticCaption ==
  "From: Acme Inc\nTo: Jane Doe\n123 Main Street\nAustin TX 78701\nTracking: 1Z9999999999999999\nService: Ground\nWeight: 5 lbs"

PlainCaption == "a cardboard box on a table"

DigitsCaption == "Order 123456 packed"

TwoNumbersCaption == "UPS 1Z9999999999999999 ref 123456789012"

LongSenderCaption ==
  "From: Acme International Shipping and Logistics Company of North America, Receiving Dock 12, Building C"

FreightCaption == "Acme Freight LLC 500 Oak Avenue Dallas TX 75201 Permit: 42 Ref: A7"

WeightCaption == "Weight: 5 lbs"

Captions ==
  {SyntheticCaption, PlainCaption, DigitsCaption, TwoNumbersCaption,
   LongSenderCaption, FreightCaption, WeightCaption, ""}
(* the state of the label flow *)
NoMarkup == <<>>

NewLabel(stage, text) ==
  [stage |-> stage, text |-> text, rec |-> EmptyRecord, rec2 |-> EmptyRecord,
   now |-> <<"", "">>, random |-> "", zpl |-> NoMarkup, zpl2 |-> NoMarkup,
   zplB |-> NoMarkup, blank |-> "", statusCode |-> 0, description |-> ""]

NoLabel == NewLabel("none", "")

---------------------------------------------------------------------------
(* One invocation of the function: the request (event), the environment,   *)
(* and what the handler does with them.                                    *)

(* values of event.httpMethod *)
Methods == {"GET", "POST", "PUT"}

(* the names a key is looked up under, in the order of the || chains; an   *)
(* absent name holds ""                                                    *)
EnvNames == <<"REPLICATE_API_KEY", "replicate_api_key", "Replicate_Api_Key">>

HeaderNames == <<"x-replicate-api-key", "X-Replicate-Api-Key">>

QueryNames == <<"api_key", "apiKey">>

(* the value stored under a name when the name is present *)
KeyAt(name) == "r8_" \o name

(* the assignments of a value or "" to each of the names *)
Holding(names) ==
  LET dom == {names[i] : i \in 1..Len(names)}
  IN  {[n \in dom |-> IF n \in present THEN KeyAt(n) ELSE ""] :
         present \in SUBSET dom}

(* none of the names is present *)
Absent(names) == [n \in {names[i] : i \in 1..Len(names)} |-> ""]

(* values[a] || values[b] || ... *)
RECURSIVE FirstSet(_, _, _)
FirstSet(values, names, i) ==
  IF i > Len(names) THEN ""
  ELSE IF values[names[i]] # "" THEN values[names[i]]
  ELSE FirstSet(values, names, i + 1)

(* the key looked up in the request before the environment *)
replicateApiKeyRequestFirst(h, env, headers, query) ==
  IF h = HSimple THEN env["REPLICATE_API_KEY"]
  ELSE IF FirstSet(headers, HeaderNames, 1) # ""
    THEN FirstSet(headers, HeaderNames, 1)
  ELSE IF FirstSet(query, QueryNames, 1) # ""
    THEN FirstSet(query, QueryNames, 1)
  ELSE FirstSet(env, EnvNames, 1)

(* let replicateApiKey: process.env, then the header, then the query; the  *)
(* simple handler reads process.env.REPLICATE_API_KEY only                 *)
replicateApiKey(h, env, headers, query) ==
  IF h = HSimple THEN env["REPLICATE_API_KEY"]
  ELSE IF FirstSet(env, EnvNames, 1) # ""
    THEN FirstSet(env, EnvNames, 1)
  ELSE IF FirstSet(headers, HeaderNames, 1) # ""
    THEN FirstSet(headers, HeaderNames, 1)
  ELSE FirstSet(query, QueryNames, 1)

(* const isPredictionCheck of the client-polled handlers *)
isPredictionCheck(h, method, predictionId) ==
  ~IsBlocking(h) /\ method = "GET" /\ predictionId # ""

(* the test before the 405 *)
MethodAllowed(h, method, predictionId) ==
  method = "POST" \/ isPredictionCheck(h, method, predictionId)

MethodNotAllowed == ErrorResponse(405, "Method not allowed", "")

(* if (predictionId) inside the try block: the branch of the status check *)
IsStatusCheck(h, predictionId) == ~IsBlocking(h) /\ predictionId # ""

(* the while loop of a blocking handler left after its last status check r, *)
(* and the code after the loop                                             *)
LoopExit(h, r) ==
  IF IsStatus(r, "succeeded") THEN AfterLoop(h, r.output)
  ELSE IF IsStatus(r, "failed") THEN PredictionFailedResponse(h, r)
  ELSE AfterLoop(h, OutNull)

Request(method, predictionId, env, headers, query, hasImage) ==
  [method |-> method, predictionId |-> predictionId, env |-> env,
   headers |-> headers, query |-> query, hasImage |-> hasImage]

Requests ==
  {Request(method, predictionId, env, headers, query, hasImage) :
     method \in Methods, predictionId \in {"", PredictionId},
     env \in Holding(EnvNames), headers \in Holding(HeaderNames),
     query \in Holding(QueryNames), hasImage \in BOOLEAN}

(* route is the branch taken, sentKey the Authorization token of the       *)
(* provider requests, "" when none was sent                                *)
Answer(route, response, sentKey, created, checked) ==
  [route |-> route, response |-> response, sentKey |-> sentKey,
   created |-> created, checked |-> checked]

(* the initial request: the lookup of the key, the image, the create call, *)
(* and for a blocking handler its poll loop                                *)
startPrediction(h, key, hasImage, cr, r) ==
  LET failure == SubmitFailure(h, key # "", hasImage, cr)
      called  == CreateCalled(h, key # "", hasImage)
      looped  == failure = NoResponse /\ IsBlocking(h)
  IN  Answer("initial",
             IF failure # NoResponse THEN failure
             ELSE IF looped THEN LoopExit(h, r)
             ELSE Accepted(cr),
             IF called THEN key ELSE "", called, looped)

(* exports.handler on one event; cr and r are what the provider answers to *)
(* the create request and to the (last) status request                     *)
(* process-label.js.new looks the key up before it tests predictionId:    *)
(* without a key neither branch is entered                                 *)
handleRequest(h, req, cr, r) ==
  IF ~MethodAllowed(h, req.method, req.predictionId)
    THEN Answer("rejected", MethodNotAllowed, "", FALSE, FALSE)
  ELSE IF h = HPolled
            /\ replicateApiKey(h, req.env, req.headers, req.query) = ""
    THEN Answer("config", ErrorResponse(500, ConfigError, ""), "", FALSE, FALSE)
  ELSE IF IsStatusCheck(h, req.predictionId)
    THEN LET key == replicateApiKey(h, req.env, req.headers, req.query)
         IN  Answer("check", checkJob(h, key # "", r), key, FALSE, key # "")
  ELSE startPrediction(h, replicateApiKey(h, req.env, req.headers, req.query),
                       req.hasImage, cr, r)

(* no invocation is followed *)
NoCall == [stage |-> "none"]

NewCall(req) ==
  [stage |-> "request", request |-> req,
   answer |-> Answer("", NoResponse, "", FALSE, FALSE)]

---------------------------------------------------------------------------
(* State of one flow.                                                      *)

VARIABLES
  handler,       \* the function revision serving /.netlify/functions/process-label
  envKey,        \* process.env.REPLICATE_API_KEY is set
  pc,            \* "request", "poll", "sleep", "done"
  retries,       \* let retries of the poll loop (handler's or pollForResults')
  result,        \* let result = null of the blocking handler
  statusData,    \* reply of the latest provider status request
  timer,         \* delay of the pending setTimeout, 0 when none
  response,      \* latest response returned by the handler
  clientResult,  \* what the browser script ends with
  checks,        \* provider status requests issued for the flow
  slept,         \* ms waited inside handler invocations
  clientSlept,   \* ms waited by pollForResults
  allInProgress, \* every status check so far returned an in-progress status
  sawCheckFailed,\* some status check so far failed by itself
  lastWait,      \* wait after the previous in-progress status, 0 if none
  reqKey,        \* the handler took its key from the latest request
  createReply,   \* reply of the provider create request, NoCreate if none
  createCalls,   \* provider create requests issued for the flow
  abandoned,     \* the caller has given the flow up
  jobs,          \* the invocations of the blocking handler running at once
  label,         \* the label flow: caption, records and markups
  polls,         \* requests pollForResults has sent to the function
  allThrown,     \* every status check of the blocking loop so far threw
  call           \* one invocation of the function on an arbitrary request

vars == <<handler, envKey, pc, retries, result, statusData, timer, response,
          clientResult, checks, slept, clientSlept, allInProgress,
          sawCheckFailed, lastWait, reqKey, createReply, createCalls,
          abandoned, jobs, label, polls, allThrown, call>>

(* the variables of the single flow *)
flowVars == <<pc, retries, result, statusData, timer, response,
              clientResult, checks, slept, clientSlept, allInProgress,
              sawCheckFailed, lastWait, reqKey, createReply, createCalls,
              abandoned, polls, allThrown>>

(* Invocations of the handler that are in their poll loops at the same     *)
(* time.  Each holds the let-variables of its own call of the handler.     *)
NumJobs == 2

Jobs == 1..NumJobs

NewJob ==
  [pc |-> "poll", retries |-> 0, result |-> OutNull, timer |-> 0,
   response |-> NoResponse, checks |-> 0]

InitFlow ==
  /\ handler \in Handlers
  /\ envKey \in BOOLEAN
  /\ pc = "request"
  /\ retries = 0
  /\ result = OutNull
  /\ statusData = NoReply
  /\ timer = 0
  /\ response = NoResponse
  /\ clientResult = "pending"
  /\ checks = 0
  /\ slept = 0
  /\ clientSlept = 0
  /\ allInProgress = TRUE
  /\ sawCheckFailed = FALSE
  /\ lastWait = 0
  /\ reqKey = FALSE
  /\ createReply = NoCreate
  /\ createCalls = 0
  /\ abandoned = FALSE
  /\ jobs = [j \in Jobs |-> NewJob]
  /\ polls = 0
  /\ allThrown = TRUE

Init == InitFlow /\ label = NoLabel /\ call = NoCall

(* the browser script around its fetch of the function: !response.ok       *)
(* throws, a 200 body is displayed                                         *)
ClientOf(resp, failure) ==
  IF resp.statusCode \in 200..299 THEN "result" ELSE failure

(* The upload: the handler from its start to the end of the create-job     *)
(* call.                                                                   *)
Submit(hasImage, inRequest, cr) ==
  /\ pc = "request"
  /\ reqKey' = KeyFromRequest(handler, envKey, inRequest)
  /\ LET hasKey  == KeyFound(handler, envKey, inRequest)
         failure == SubmitFailure(handler, hasKey, hasImage, cr)
         called  == CreateCalled(handler, hasKey, hasImage)
     IN  /\ createReply' = IF called THEN cr ELSE NoCreate
         /\ createCalls' = IF called THEN createCalls + 1 ELSE createCalls
         /\ IF failure # NoResponse
              THEN /\ response' = failure
                   /\ clientResult' = "Failed to process image"
                   /\ pc' = "done"
              ELSE /\ response' = IF IsBlocking(handler) THEN response
                                  ELSE Accepted(cr)
                   /\ clientResult' = clientResult
                   /\ pc' = "poll"
  /\ UNCHANGED <<handler, envKey, retries, result, statusData, timer, checks,
                 slept, clientSlept, allInProgress, sawCheckFailed, lastWait,
                 abandoned,
                 jobs, label, polls, allThrown, call>>

(* the loop going round without retries++ *)
NextAttemptUncounted ==
  /\ retries' = retries
  /\ pc' = "poll"
  /\ UNCHANGED <<response, clientResult>>

(* retries++ at the bottom of the while body, then the loop test; the      *)
(* code after the loop runs when the test fails                            *)
NextAttempt ==
  /\ retries' = retries + 1
  /\ IF retries + 1 < maxRetries(handler)
       THEN /\ pc' = "poll"
            /\ UNCHANGED <<response, clientResult>>
       ELSE /\ pc' = "done"
            /\ response' = AfterLoop(handler, result)
            /\ clientResult' = ClientOf(AfterLoop(handler, result),
                                        "Failed to process image")

(* a catch block that is never reached: a thrown error is waited out like *)
(* an in-progress status                                                   *)
CaughtNever(h, r) == FALSE

(* the catch block of the blocking loop is reached without any wait *)
Caught(h, r) ==
  \/ r.kind \in {"throw", "badjson"}
  \/ r.kind = "nonok" /\ h = HBackoff /\ ~r.textOk

(* One iteration of the blocking while loop up to its next await.          *)
PollOnce(r) ==
  /\ pc = "poll"
  /\ IsBlocking(handler)
  /\ retries < maxRetries(handler)
  /\ checks' = checks + 1
  /\ statusData' = r
  /\ allInProgress' = (allInProgress /\ InProgress(r))
  /\ sawCheckFailed' = (sawCheckFailed \/ CheckFailed(r))
  /\ CASE Caught(handler, r) ->
            /\ NextAttempt
            /\ UNCHANGED <<result, timer, lastWait>>
       [] r.kind = "nonok" /\ ~Caught(handler, r) ->
            /\ timer' = errorWait(handler)
            /\ pc' = "sleep"
            /\ UNCHANGED <<retries, result, response, clientResult, lastWait>>
       [] IsStatus(r, "succeeded") ->
            /\ result' = r.output
            /\ pc' = "done"
            /\ response' = AfterLoop(handler, r.output)
            /\ clientResult' = ClientOf(AfterLoop(handler, r.output),
                                        "Failed to process image")
            /\ UNCHANGED <<retries, timer, lastWait>>
       [] IsStatus(r, "failed") ->
            /\ pc' = "done"
            /\ response' = PredictionFailedResponse(handler, r)
            /\ clientResult' = "Failed to process image"
            /\ UNCHANGED <<retries, result, timer, lastWait>>
       [] OTHER ->
            /\ timer' = waitTime(handler, retries)
            /\ pc' = "sleep"
            /\ UNCHANGED <<retries, result, response, clientResult, lastWait>>
  /\ allThrown' = (allThrown /\ Caught(handler, r))
  /\ UNCHANGED <<handler, envKey, slept, clientSlept, reqKey, createReply,
                 createCalls, abandoned,
                 jobs, label, polls, call>>

(* The setTimeout of the blocking loop fires. *)
TimerFires ==
  /\ pc = "sleep"
  /\ IsBlocking(handler)
  /\ slept' = slept + timer
  /\ timer' = 0
  /\ lastWait' = IF InProgress(statusData) THEN timer ELSE lastWait
  /\ NextAttempt
  /\ UNCHANGED <<handler, envKey, result, statusData, checks, clientSlept,
                 allInProgress, sawCheckFailed, reqKey, createReply,
                 createCalls, abandoned,
                 jobs, label, polls, allThrown, call>>

(* pollForResults waiting and asking again after a response that is not   *)
(* ok, instead of throwing                                                 *)
ClientPollRetryingErrors(r, inRequest) ==
  /\ pc = "poll"
  /\ ~IsBlocking(handler)
  /\ retries < maxRetries(handler)
  /\ reqKey' = KeyFromRequest(handler, envKey, inRequest)
  /\ IF KeyFound(handler, envKey, inRequest)
       THEN /\ checks' = checks + 1
            /\ statusData' = r
            /\ allInProgress' = (allInProgress /\ InProgress(r))
            /\ sawCheckFailed' = (sawCheckFailed \/ CheckFailed(r))
       ELSE UNCHANGED <<checks, statusData, allInProgress, sawCheckFailed>>
  /\ LET resp == checkJob(handler, KeyFound(handler, envKey, inRequest), r)
     IN  /\ response' = resp
         /\ CASE resp.statusCode # 200 ->
                   /\ timer' = ClientDelayMs
                   /\ pc' = "sleep"
                   /\ UNCHANGED clientResult
              [] OTHER ->
                   /\ pc' = "done"
                   /\ clientResult' = ClientOf(resp, "Failed to check status")
                   /\ UNCHANGED timer
  /\ polls' = polls + 1
  /\ UNCHANGED <<handler, envKey, retries, result, slept, clientSlept, lastWait,
                 createReply, createCalls, abandoned,
                 jobs, label, allThrown, call>>

(* One iteration of pollForResults: a GET with ?predictionId, served by    *)
(* checkPredictionStatus, and the script's reading of the response.        *)
ClientPoll(r, inRequest) ==
  /\ pc = "poll"
  /\ ~IsBlocking(handler)
  /\ retries < maxRetries(handler)
  /\ reqKey' = KeyFromRequest(handler, envKey, inRequest)
  /\ IF KeyFound(handler, envKey, inRequest)
       THEN /\ checks' = checks + 1
            /\ statusData' = r
            /\ allInProgress' = (allInProgress /\ InProgress(r))
            /\ sawCheckFailed' = (sawCheckFailed \/ CheckFailed(r))
       ELSE UNCHANGED <<checks, statusData, allInProgress, sawCheckFailed>>
  /\ LET resp == checkJob(handler, KeyFound(handler, envKey, inRequest), r)
     IN  /\ response' = resp
         /\ CASE resp.statusCode = 202 ->
                   /\ timer' = ClientDelayMs
                   /\ pc' = "sleep"
                   /\ UNCHANGED clientResult
              [] OTHER ->
                   /\ pc' = "done"
                   /\ clientResult' = ClientOf(resp, "Failed to check status")
                   /\ UNCHANGED timer
  /\ polls' = polls + 1
  /\ UNCHANGED <<handler, envKey, retries, result, slept, clientSlept, lastWait,
                 createReply, createCalls, abandoned,
                 jobs, label, allThrown, call>>

(* The setTimeout of pollForResults fires: retries++, continue; after the  *)
(* loop the script throws its timed-out error.                             *)
ClientTimerFires ==
  /\ pc = "sleep"
  /\ ~IsBlocking(handler)
  /\ clientSlept' = clientSlept + timer
  /\ timer' = 0
  /\ retries' = retries + 1
  /\ IF retries + 1 < maxRetries(handler)
       THEN /\ pc' = "poll"
            /\ UNCHANGED clientResult
       ELSE /\ pc' = "done"
            /\ clientResult' = "Timed out waiting for image analysis to complete"
  /\ UNCHANGED <<handler, envKey, result, statusData, response, checks, slept,
                 allInProgress, sawCheckFailed, lastWait, reqKey, createReply,
                 createCalls, abandoned,
                 jobs, label, polls, allThrown, call>>

Next ==
  \/ \E hasImage \in BOOLEAN, inRequest \in BOOLEAN, cr \in CreateReplies :
       Submit(hasImage, inRequest, cr)
  \/ \E r \in StatusReplies : PollOnce(r)
  \/ TimerFires
  \/ \E r \in StatusReplies, inRequest \in BOOLEAN : ClientPoll(r, inRequest)
  \/ ClientTimerFires

Spec == Init /\ [][Next]_vars

(* The caller gives the flow up while a setTimeout is pending: the browser *)
(* drops the connection or leaves pollForResults' page state.  No handler  *)
(* and no script holds the timer's id or an abort signal, so nothing but   *)
(* the caller's own state changes.                                         *)
Abandon ==
  /\ pc = "sleep"
  /\ ~abandoned
  /\ abandoned' = TRUE
  /\ UNCHANGED <<handler, envKey, pc, retries, result, statusData, timer,
                 response, clientResult, checks, slept, clientSlept,
                 allInProgress, sawCheckFailed, lastWait, reqKey, createReply,
                 createCalls, jobs, label, polls, allThrown, call>>

NextAbandon == Next \/ Abandon

(* abandonment is followed in a deployment whose environment has the key *)
InitAbandon == Init /\ envKey

SpecAbandon == InitAbandon /\ [][NextAbandon]_vars

---------------------------------------------------------------------------
(* Several invocations of one blocking handler, each in its poll loop.     *)

(* provider replies the concurrent invocations are run against *)
JobReplies ==
  { StatusReply("throw", TRUE, "", OutNull, ""),
    StatusReply("nonok", TRUE, "", OutNull, ""),
    StatusReply("ok", TRUE, "processing", OutNull, ""),
    StatusReply("ok", TRUE, "succeeded", OutString("Caption: a shipping label"), ""),
    StatusReply("ok", TRUE, "failed", OutNull, "CUDA out of memory") }

(* retries++ and the loop test, on the variables of one invocation *)
JobNextAttempt(h, job) ==
  IF job.retries + 1 < maxRetries(h)
    THEN [job EXCEPT !.retries = @ + 1, !.pc = "poll", !.timer = 0]
    ELSE [job EXCEPT !.retries = @ + 1, !.pc = "done", !.timer = 0,
                     !.response = AfterLoop(h, job.result)]

(* one iteration of the while loop up to its next await *)
JobPolled(h, job, r) ==
  LET checked == [job EXCEPT !.checks = @ + 1]
  IN  CASE Caught(h, r) -> JobNextAttempt(h, checked)
        [] r.kind = "nonok" /\ ~Caught(h, r) ->
             [checked EXCEPT !.pc = "sleep", !.timer = errorWait(h)]
        [] IsStatus(r, "succeeded") ->
             [checked EXCEPT !.pc = "done", !.result = r.output,
                             !.response = AfterLoop(h, r.output)]
        [] IsStatus(r, "failed") ->
             [checked EXCEPT !.pc = "done",
                             !.response = PredictionFailedResponse(h, r)]
        [] OTHER ->
             [checked EXCEPT !.pc = "sleep", !.timer = waitTime(h, job.retries)]

InitJobs ==
  /\ Init
  /\ IsBlocking(handler)
  /\ envKey

JobPoll(j, r) ==
  /\ jobs[j].pc = "poll"
  /\ jobs' = [jobs EXCEPT ![j] = JobPolled(handler, jobs[j], r)]
  /\ UNCHANGED <<handler, envKey, flowVars, label, call>>

(* the setTimeout of invocation j firing with retries one counter of the   *)
(* module, shared by all invocations                                       *)
JobTimerFiresShared(j) ==
  /\ jobs[j].pc = "sleep"
  /\ jobs' = [k \in Jobs |->
               IF k = j THEN JobNextAttempt(handler, jobs[k])
               ELSE [jobs[k] EXCEPT !.retries = jobs[j].retries + 1]]
  /\ UNCHANGED <<handler, envKey, flowVars, label, call>>

JobTimerFires(j) ==
  /\ jobs[j].pc = "sleep"
  /\ jobs' = [jobs EXCEPT ![j] = JobNextAttempt(handler, jobs[j])]
  /\ UNCHANGED <<handler, envKey, flowVars, label, call>>

NextJobs ==
  \/ \E j \in Jobs, r \in JobReplies : JobPoll(j, r)
  \/ \E j \in Jobs : JobTimerFires(j)

SpecJobs == InitJobs /\ [][NextJobs]_vars

---------------------------------------------------------------------------
(* The label flow: what a handler does with the caption of a succeeded job. *)
(* It is run twice on the same caption, and the renderer once more on the   *)
(* record with one field emptied.                                           *)

(* the handlers that build a record from the caption and render it; the    *)
(* simple handler answers a succeeded job with one constant document       *)
LabelHandlers == {HBlocking, HBackoff, HPolled}

(* values of Math.floor(Math.random() * 100000000).toString() *)
Placeholders == {"4711", "87654321"}

(* values of Math.floor(Math.random() * 1000000000).toString().padStart(9, '0') *)
Randoms == {"000004711", "987654321"}

(* values of toLocaleDateString() and toLocaleTimeString() *)
Clock == {<<"11/1/2026", "10:15:00 AM">>, <<"11/1/2026", "10:15:01 AM">>}

InitLabel ==
  /\ InitFlow
  /\ envKey
  /\ handler \in LabelHandlers
  /\ label \in {NewLabel("caption", text) : text \in Captions}
  /\ call = NoCall

(* the record built from the caption of the succeeded job *)
Extract(placeholder) ==
  /\ label.stage = "caption"
  /\ label' = [label EXCEPT !.stage = "extracted",
                            !.rec = ExtractRecord(handler, label.text, placeholder)]
  /\ UNCHANGED <<handler, envKey, flowVars, jobs, call>>

(* the same caption extracted once more *)
ExtractAgain(placeholder) ==
  /\ label.stage = "extracted"
  /\ label' = [label EXCEPT !.stage = "extractedTwice",
                            !.rec2 = ExtractRecord(handler, label.text, placeholder)]
  /\ UNCHANGED <<handler, envKey, flowVars, jobs, call>>

(* the markup of the record and the 200 response *)
Render(now, random) ==
  /\ label.stage = "extractedTwice"
  /\ label' = LabelResponse(handler,
                            [label EXCEPT !.stage = "rendered", !.now = now,
                                          !.random = random],
                            RenderRecord(handler, label.rec, now, random))
  /\ UNCHANGED <<handler, envKey, flowVars, jobs, call>>

(* the same record rendered once more at the same clock reading *)
RenderAgain(random) ==
  /\ label.stage = "rendered"
  /\ label' = [label EXCEPT !.stage = "renderedTwice",
                            !.zpl2 = RenderRecord(handler, label.rec, label.now,
                                                  random)]
  /\ UNCHANGED <<handler, envKey, flowVars, jobs, call>>

(* the fields a rule or a fallback fills *)
RuleFields == Fields \ {"description", "fullText"}

(* the renderer on the record with field f emptied *)
RenderBlanked(f) ==
  /\ label.stage = "renderedTwice"
  /\ label.rec[f] # ""
  /\ label' = [label EXCEPT !.stage = "blanked", !.blank = f,
                            !.zplB = RenderRecord(handler,
                                                  [label.rec EXCEPT ![f] = ""],
                                                  label.now, label.random)]
  /\ UNCHANGED <<handler, envKey, flowVars, jobs, call>>

NextLabel ==
  \/ \E placeholder \in Placeholders : Extract(placeholder)
  \/ \E placeholder \in Placeholders : ExtractAgain(placeholder)
  \/ \E now \in Clock, random \in Randoms : Render(now, random)
  \/ \E random \in Randoms : RenderAgain(random)
  \/ \E f \in RuleFields : RenderBlanked(f)

SpecLabel == InitLabel /\ [][NextLabel]_vars

---------------------------------------------------------------------------
(* The browser script against a client-polled handler.                     *)

InitClient == Init /\ ~IsBlocking(handler)

NextClient ==
  \/ \E hasImage \in BOOLEAN, inRequest \in BOOLEAN, cr \in CreateReplies :
       Submit(hasImage, inRequest, cr)
  \/ \E r \in StatusReplies, inRequest \in BOOLEAN : ClientPoll(r, inRequest)
  \/ ClientTimerFires

SpecClient == InitClient /\ [][NextClient]_vars

---------------------------------------------------------------------------
(* One invocation of a handler on any request.                             *)

InitInvoke ==
  /\ InitFlow
  /\ label = NoLabel
  /\ call \in {NewCall(req) : req \in Requests}
  /\ envKey = (replicateApiKey(handler, call.request.env,
                               Absent(HeaderNames), Absent(QueryNames)) # "")

Invoke(cr, r) ==
  /\ call.stage = "request"
  /\ call' = [call EXCEPT !.stage = "answered",
                          !.answer = handleRequest(handler, call.request, cr, r)]
  /\ UNCHANGED <<handler, envKey, flowVars, jobs, label>>

NextInvoke == \E cr \in CreateReplies, r \in StatusReplies : Invoke(cr, r)

SpecInvoke == InitInvoke /\ [][NextInvoke]_vars

---------------------------------------------------------------------------
(* Vocabulary of the properties.                                           *)

Done == pc = "done"

(* the poll loop was entered, and the flow has ended *)
PollEnded == Done /\ checks > 0

Exhausted == PollEnded /\ retries = maxRetries(handler)

(* how a response of a blocking handler ends the poll loop *)
Outcome(resp) ==
  IF resp.statusCode = 200 THEN "success"
  ELSE IF resp.error = TimedOutError THEN "timed-out"
  ELSE IF resp.error = PredictionFailedError THEN "failure"
  ELSE "none"

(* steps the blocking flow can still take *)
Measure ==
  IF Done THEN 0
  ELSE 2 * (maxRetries(handler) - retries)
         + (CASE pc = "request" -> 2 [] pc = "poll" -> 1 [] OTHER -> 0)

RECURSIVE SumWaits(_, _)
SumWaits(h, k) ==
  IF k = 0 THEN 0
  ELSE SumWaits(h, k - 1) + BaseDelayMs
         + (k - 1) * (IF h = HBackoff THEN DelayGrowthBackoff ELSE 0)

---------------------------------------------------------------------------
(* C1: the blocking poll loop issues at most maxRetries status checks, its *)
(* counter never exceeds maxRetries, and it always ends, with exactly one  *)
(* of success, failure and timed-out: before the end a step is always      *)
(* possible and every step lowers the count of steps left.                 *)
C1_BoundedPollLoop ==
  /\ [](IsBlocking(handler) =>
          /\ checks <= maxRetries(handler)
          /\ retries <= maxRetries(handler)
          /\ (PollEnded => Outcome(response) \in {"success", "failure", "timed-out"})
          /\ (~Done => ENABLED Next))
  /\ [][IsBlocking(handler) => Measure' < Measure]_vars

C1_Witness ==
  /\ handler = HBackoff
  /\ Exhausted
  /\ checks = MaxRetriesBackoff
  /\ sawCheckFailed
  /\ slept > 0
  /\ Outcome(response) = "timed-out"

(* C2: when every status check returns an in-progress status the blocking  *)
(* handler issues exactly maxRetries checks and then returns the timed-out *)
(* response, a 500 value.                                                  *)
C2_AllInProgressTimesOut ==
  (IsBlocking(handler) /\ PollEnded /\ allInProgress) =>
    /\ checks = maxRetries(handler)
    /\ response.statusCode = 500
    /\ response.error = TimedOutError

C2_Witness ==
  /\ handler = HBlocking
  /\ PollEnded
  /\ allInProgress
  /\ checks = MaxRetriesBlocking
  /\ slept = MaxRetriesBlocking * BaseDelayMs

(* C3: k in-progress checks followed by succeeded give success after k+1   *)
(* checks, with a total sleep equal to the sum of the waits of attempts    *)
(* 0..k-1 (stated for the spec's case k = 3 and the outputs that are      *)
(* strings).                                                               *)
C3_SucceededAfterK ==
  (IsBlocking(handler) /\ Done /\ ~sawCheckFailed
     /\ IsStatus(statusData, "succeeded")
     /\ retries = 3
     /\ statusData.output.type = "string") =>
    /\ checks = retries + 1
    /\ slept = SumWaits(handler, retries)
    /\ Outcome(response) = "success"

(* C4: a status check that returns succeeded ends the polling with a       *)
(* success response, whatever the output is.                               *)
C4_SucceededIsSuccess ==
  (IsBlocking(handler) /\ IsStatus(statusData, "succeeded")) =>
    /\ Done
    /\ Outcome(response) = "success"

(* C5: a status check that returns failed ends the flow without another    *)
(* check or sleep, with a failure that carries the provider's error.       *)
C5_FailedCarriesDetail ==
  IsStatus(statusData, "failed") =>
    /\ Done
    /\ timer = 0
    /\ response.statusCode = 500
    /\ response.error = PredictionFailedError
    /\ (statusData.error # "" => response.detail = statusData.error)

(* C6: in the blocking loop a failed status check never ends the flow, it  *)
(* uses one attempt, and a later succeeded check still gives success.      *)
C6_FailedCheckIsTransient ==
  IsBlocking(handler) =>
    /\ (CheckFailed(statusData) /\ Done => Exhausted)
    /\ checks = retries + (IF pc = "sleep" \/ (PollEnded /\ ~CheckFailed(statusData)
                                                /\ ~InProgress(statusData))
                           THEN 1 ELSE 0)
    /\ (Done /\ sawCheckFailed /\ IsStatus(statusData, "succeeded")
           /\ statusData.output.type = "string"
          => Outcome(response) = "success")

(* C7: in client-driven polling a failed status check is not the result of *)
(* the flow: the flow ends only on a terminal status or on an exhausted    *)
(* budget.                                                                 *)
C7_ClientRetriesTransient ==
  (~IsBlocking(handler) /\ PollEnded) =>
    \/ IsStatus(statusData, "succeeded")
    \/ IsStatus(statusData, "failed")
    \/ retries = maxRetries(handler)

(* The sum of the waits holds when the output is a non-empty string, and   *)
(* the count of checks whatever the output is.                             *)
SucceededAfterKTruthy ==
  (IsBlocking(handler) /\ Done /\ ~sawCheckFailed
     /\ IsStatus(statusData, "succeeded")) =>
    /\ checks = retries + 1
    /\ slept = SumWaits(handler, retries)
    /\ (Truthy(statusData.output) => Outcome(response) = "success")

(* C8: the wait after an in-progress status at attempt index i is          *)
(* base + i * growth, and a later in-progress wait exceeds an earlier one. *)
C8_StrictlyGrowingWait ==
  (IsBlocking(handler) /\ pc = "sleep" /\ InProgress(statusData)) =>
    /\ timer = BaseDelayMs
                 + retries * (IF handler = HBackoff THEN DelayGrowthBackoff ELSE 0)
    /\ (lastWait # 0 => timer > lastWait)

(* What does hold of the waits: each is base + i * growth and none is      *)
(* shorter than an earlier one; the growth is 500 ms per attempt in the    *)
(* backoff revision, where a later wait exceeds an earlier one, and 0 in   *)
(* process-label.js, where every wait is 1000 ms.                          *)
C8_LinearWait ==
  (IsBlocking(handler) /\ pc = "sleep" /\ InProgress(statusData)) =>
    /\ timer = BaseDelayMs
                 + retries * (IF handler = HBackoff THEN DelayGrowthBackoff ELSE 0)
    /\ (lastWait # 0 => timer >= lastWait)
    /\ (lastWait # 0 /\ handler = HBackoff => timer > lastWait)
    /\ (handler = HBlocking => timer = BaseDelayMs)

C8_LinearWaitReached ==
  /\ handler = HBackoff
  /\ pc = "sleep"
  /\ InProgress(statusData)
  /\ sawCheckFailed
  /\ lastWait = BaseDelayMs + DelayGrowthBackoff
  /\ timer = BaseDelayMs + 3 * DelayGrowthBackoff

(* C9: the result of an exhausted budget differs from the result of a      *)
(* failed prediction: the response bodies of the blocking handlers, and    *)
(* the errors pollForResults raises.                                       *)
ClientTimedOut == "Timed out waiting for image analysis to complete"

IsTimedOutResult ==
  IF IsBlocking(handler) THEN response.error = TimedOutError
  ELSE clientResult = ClientTimedOut

C9_TimeoutDistinctFromFailure ==
  Done =>
    /\ (Exhausted => IsTimedOutResult)
    /\ (IsStatus(statusData, "failed") =>
          ~IsTimedOutResult /\ response.error = PredictionFailedError)

C9_Witness ==
  /\ handler = HBackoff
  /\ Done
  /\ IsStatus(statusData, "failed")
  /\ retries = MaxRetriesBackoff - 1
  /\ response.detail = "CUDA out of memory"

(* C10: an invocation of checkPredictionStatus issues one status request,  *)
(* does not sleep, and answers with the result on succeeded, a failure on  *)
(* failed and 202 with the status and the job id on any other status (the  *)
(* result being due for the outputs extraction accepts: string, array,     *)
(* object).                                                                *)
C10_CheckOnce ==
  [][(~IsBlocking(handler) /\ checks' # checks) =>
       /\ checks' = checks + 1
       /\ slept' = slept
       /\ (IsStatus(statusData', "succeeded")
             /\ statusData'.output.type \in {"string", "array", "object"} =>
             response'.statusCode = 200 /\ response'.modelOutput = statusData'.output)
       /\ (IsStatus(statusData', "failed") =>
             response'.statusCode = 500 /\ response'.error = PredictionFailedError)
       /\ (InProgress(statusData') =>
             /\ response'.statusCode = 202
             /\ response'.status = statusData'.status
             /\ response'.predictionId = PredictionId)]_vars

---------------------------------------------------------------------------
(* How a check-once response classifies the provider reply it answers.     *)
ClassOf(resp) ==
  IF resp.statusCode = 200 THEN "success"
  ELSE IF resp.statusCode = 202 THEN "in-progress"
  ELSE IF resp.error = PredictionFailedError THEN "failure"
  ELSE "none"

(* How the blocking loop has classified its latest reply: it waits for the *)
(* next attempt on an in-progress one and ends the flow on a terminal one. *)
BlockingClass ==
  IF InProgress(statusData) THEN "in-progress" ELSE Outcome(response)

(* C11: the blocking loop and the check-once handlers put every provider   *)
(* status response (status and output) into the same class: terminal       *)
(* success, terminal failure or in-progress.  Stated for the outputs both  *)
(* modes accept as a caption, strings.                                     *)
C11_SameClassification ==
  (/\ IsBlocking(handler)
   /\ statusData.kind = "ok"
   /\ (pc = "sleep" \/ Done)
   /\ (IsStatus(statusData, "succeeded") => statusData.output.type = "string"))
  => \A hc \in {HPolled, HSimple} :
       ClassOf(checkPredictionStatus(hc, statusData)) = BlockingClass

---------------------------------------------------------------------------
(* the create-job call of the submission failed: transport error or        *)
(* non-2xx status                                                          *)
CreateFailed == createReply.kind \in {"throw", "nonok"}

(* the failure of the create call is the flow's answer: nothing waited,    *)
(* nothing polled, nothing created again                                   *)
SurfacedAtOnce ==
  /\ Done
  /\ response.statusCode = 500
  /\ clientResult = "Failed to process image"
  /\ createCalls = 1
  /\ checks = 0
  /\ slept = 0 /\ clientSlept = 0

BodyCarried ==
  (createReply.kind = "nonok" /\ createReply.textOk)
    => response.detail = createReply.body

(* C12: a submission makes one create-job call; when that call fails the   *)
(* failure is the immediate answer, it carries the body of a non-2xx       *)
(* provider reply, the create call is not repeated and no status request   *)
(* is issued.                                                              *)
C12_SubmitOnce ==
  /\ createCalls <= 1
  /\ (createReply # NoCreate => createCalls = 1)
  /\ (CreateFailed => SurfacedAtOnce /\ BodyCarried)

(* The same for the handlers that read the body of the provider's reply:   *)
(* all but process-label-simple.js.                                        *)
C12_SubmitOnceWithBody ==
  handler # HSimple => C12_SubmitOnce

C12_SubmitOnceWithBodyReached ==
  /\ handler \in {HBlocking, HPolled}
  /\ createReply.kind = "nonok" /\ createReply.textOk
  /\ response.error = "Replicate API error"
  /\ response.detail = "Invalid version or not permitted"

---------------------------------------------------------------------------
(* C13: a POST to a client-polled handler answers as soon as the create    *)
(* call has succeeded, with 202, the job id and the status of the          *)
(* provider's reply; it issues no status request and does not sleep.       *)
C13_FireAndReturn ==
  [][(~IsBlocking(handler) /\ pc = "request" /\ createReply'.kind = "ok") =>
       /\ response'.statusCode = 202
       /\ response'.predictionId = createReply'.id
       /\ response'.status = createReply'.status
       /\ createCalls' = 1
       /\ checks' = 0
       /\ timer' = 0
       /\ slept' = 0 /\ clientSlept' = 0]_vars

C13_Witness ==
  /\ ~IsBlocking(handler)
  /\ pc = "poll" /\ retries = 0 /\ checks = 0
  /\ createReply = OkCreate("processing")
  /\ response.statusCode = 202
  /\ response.predictionId = PredictionId
  /\ response.status = "processing"

---------------------------------------------------------------------------
IsConfigError(resp) ==
  resp.statusCode = 500 /\ resp.error \in {ConfigError, MissingKeyError}

(* the step calls the provider *)
CallsProvider == createCalls' # createCalls \/ checks' # checks

C14_SubmitReached ==
  /\ ~envKey /\ ~reqKey
  /\ createCalls = 0
  /\ Done
  /\ IsConfigError(response)

---------------------------------------------------------------------------
(* what one invocation can do next when it is the only one running *)
JobAlone(h, job) ==
  IF job.pc = "poll" THEN { JobPolled(h, job, r) : r \in JobReplies }
  ELSE IF job.pc = "sleep" THEN { JobNextAttempt(h, job) }
  ELSE {}

(* what holds of an invocation running alone: the loop bound, one status   *)
(* request per attempt, and an outcome fixed by its own result             *)
JobAsAlone(h, job) ==
  /\ job.retries <= maxRetries(h)
  /\ job.checks = job.retries +
        (IF job.pc = "sleep" \/ (job.pc = "done" /\ job.retries < maxRetries(h))
           THEN 1 ELSE 0)
  /\ (job.pc = "done" =>
        \/ job.response = AfterLoop(h, job.result)
        \/ job.result = OutNull /\ job.response.error = PredictionFailedError)

(* C15: with several jobs polled at once, under every interleaving of      *)
(* their status checks and waits, a step of one job changes no variable    *)
(* of another, every job moves as it would alone, and its attempt counter, *)
(* result and outcome are those of a job run alone.                        *)
C15_JobsIndependent ==
  /\ [](\A j \in Jobs : JobAsAlone(handler, jobs[j]))
  /\ [][\A j \in Jobs :
          jobs'[j] # jobs[j] =>
            /\ jobs'[j] \in JobAlone(handler, jobs[j])
            /\ \A k \in Jobs \ {j} : jobs'[k] = jobs[k]]_vars

C15_Witness ==
  /\ jobs[1].pc = "done" /\ jobs[1].retries = 2
  /\ jobs[1].response.statusCode = 200
  /\ jobs[2].pc = "sleep" /\ jobs[2].retries = 4 /\ jobs[2].checks = 5

---------------------------------------------------------------------------
(* C16: once the caller has abandoned a flow during a backoff wait, the    *)
(* pending timer does not fire and no status request is issued for the     *)
(* flow any more.                                                          *)
C16_AbandonCancels ==
  [][abandoned =>
       /\ slept' = slept /\ clientSlept' = clientSlept
       /\ checks' = checks]_vars

---------------------------------------------------------------------------
(* C17: for one succeeded provider output the blocking handler and the     *)
(* check-once handlers answer with the same description (and with it the   *)
(* same markup and fields).  Stated for string outputs, which every        *)
(* handler accepts.                                                        *)
C17_SameResult ==
  (/\ IsBlocking(handler)
   /\ Done
   /\ IsStatus(statusData, "succeeded")
   /\ statusData.output.type = "string"
   /\ response.statusCode = 200)
  => \A hc \in {HPolled, HSimple} :
       /\ checkPredictionStatus(hc, statusData).statusCode = 200
       /\ checkPredictionStatus(hc, statusData).description = response.description

---------------------------------------------------------------------------
(* the caption the normalisation is to give *)
Normalized(o) ==
  IF o.type \in {"string", "array"} THEN o.str
  ELSE IF o.str # "" THEN o.str
  ELSE IF o.text # "" THEN o.text
  ELSE Stringify(o)

(* a succeeded output of a shape the normalisation names has reached the   *)
(* extraction of the handler                                               *)
ExtractionReached ==
  /\ Done
  /\ handler # HSimple
  /\ IsStatus(statusData, "succeeded")
  /\ \/ statusData.output.type \in {"string", "object"}
     \/ statusData.output.type = "array" /\ statusData.output.num > 0
  /\ (IsBlocking(handler) => Truthy(statusData.output))

(* C18: on every path that reaches extraction the output is normalized     *)
(* first: the first element of an array, the caption or else the text      *)
(* property of an object or else its JSON text, a string as it is.         *)
C18_NormalizedEverywhere ==
  ExtractionReached =>
    /\ response.statusCode = 200
    /\ response.caption = Normalized(statusData.output)

(* The same on the blocking path alone. *)
C18_BlockingNormalizes ==
  IsBlocking(handler) => C18_NormalizedEverywhere

C18_BlockingNormalizesReached ==
  /\ IsBlocking(handler)
  /\ ExtractionReached
  /\ statusData.output = OutObject("", "only text")
  /\ response.caption = "only text"

---------------------------------------------------------------------------
(* C19: a succeeded job whose output is a number, neither string nor array *)
(* nor object, never ends in a success response with a label; the         *)
(* extraction fails on it.                                                 *)
C19_NumberIsUnprocessable ==
  (/\ Done
   /\ handler # HSimple
   /\ IsStatus(statusData, "succeeded")
   /\ statusData.output.type = "number")
  => response.statusCode # 200

---------------------------------------------------------------------------
(* a succeeded string output has reached the extraction of the handler *)
StringExtracted ==
  ExtractionReached /\ statusData.output.type = "string"

C20_EmptyReached ==
  /\ handler = HPolled
  /\ StringExtracted
  /\ statusData.output.str = ""
  /\ response.caption = ""
  /\ response.description = "..."

C20_BlockingLongReached ==
  /\ IsBlocking(handler)
  /\ StringExtracted
  /\ response.description = LongCaption

---------------------------------------------------------------------------
(* Extraction.                                                             *)

(* the record of the caption has been built *)
Extracted == label.stage \notin {"none", "caption"}

(* the markup of the record has been made and the response returned *)
Rendered == label.stage \in {"rendered", "renderedTwice", "blanked"}

(* the handlers that have extraction rules; process-label.js prints the   *)
(* caption as it is                                                        *)
Parses(h) == h \in {HPolled, HBackoff}

(* some pattern of the rule of handler h for field f matches the caption *)
SomeMatches(text, patterns) == \E re \in patterns : Match(text, re).ok

RuleFinds(h, f, text) ==
  CASE h = HPolled /\ f = "trackingNumber" ->
         SomeMatches(text, {trackingPatterns[k] : k \in 1..Len(trackingPatterns)})
    [] h = HPolled /\ f = "senderName" ->
         SomeMatches(text, {LabelledLine("From"), LabelledLine("Sender"),
                            LabelledLine2("Ship", "From")})
    [] h = HPolled /\ f = "recipientName" ->
         SomeMatches(text, {LabelledLine("To"), LabelledLine("Recipient"),
                            LabelledLine2("Ship", "To")})
    [] h = HPolled /\ f = "serviceType" ->
         SomeMatches(text, {LabelledLine("Service"), LabelledLine2("Service", "Type")})
    [] h = HPolled /\ f = "weight" ->
         SomeMatches(text, {LabelledLine("Weight"), WeightPattern})
    [] h = HBackoff /\ f = "trackingNumber" ->
         SomeMatches(DescriptionOf(text), {DigitRunPattern})
    [] h = HBackoff /\ f = "addressLine" ->
         SomeMatches(DescriptionOf(text), {AddressPattern})
    [] h = HBackoff /\ f = "city" ->
         SomeMatches(DescriptionOf(text), {LocationPattern})
    [] h = HBackoff /\ f \in {"state", "zip"} ->
         SomeMatches(DescriptionOf(text), {LocationPattern, SimpleZipPattern})
    [] h = HBackoff /\ f = "companyName" ->
         SomeMatches(DescriptionOf(text), {CompanyPattern, CapitalizedNamePattern})
    [] h = HBackoff /\ f = "permitNumber" ->
         SomeMatches(DescriptionOf(text), {NumberAfter("Permit")})
    [] h = HBackoff /\ f = "refNumber" ->
         SomeMatches(DescriptionOf(text), {NumberAfter("Ref")})
    [] OTHER -> FALSE

(* no rule of handler h matches the caption *)
NoRuleFinds(h, text) == \A f \in RuleFields : ~RuleFinds(h, f, text)

(* the placeholder part_002 puts where its tracking rule finds nothing *)
IsPlaceholder(h, f, value) ==
  h = HBackoff /\ f = "trackingNumber" /\ value \in Placeholders

(* C21, as stated: the record of a caption that matches no rule has every  *)
(* optional field empty.                                                   *)
C21_NoRuleAllEmpty ==
  (label.stage = "extracted" /\ NoRuleFinds(handler, label.text))
    => \A f \in RuleFields : label.rec[f] = ""

(* C21 (amended): for every caption extraction returns a record and the    *)
(* flow goes on to the 200 response; a field is filled exactly when its    *)
(* own rule finds a match, whatever the other rules find, except that      *)
(* part_002 puts a random placeholder in the tracking number when its      *)
(* tracking rule finds none.                                               *)
C21_RulesIndependent ==
  /\ Extracted => DOMAIN label.rec = Fields
  /\ label.stage = "extracted"
       => \A f \in RuleFields :
            IF RuleFinds(handler, f, label.text)
              THEN label.rec[f] # ""
              ELSE \/ label.rec[f] = ""
                   \/ IsPlaceholder(handler, f, label.rec[f])
  /\ Rendered => label.statusCode = 200

(* a caption only the weight rule matches: the weight is filled, the other *)
(* fields are empty, the response is 200                                   *)
C21_Witness ==
  /\ handler = HPolled
  /\ label.text = WeightCaption
  /\ Rendered
  /\ label.rec.weight = "Weight: 5 lbs"
  /\ \A f \in RuleFields \ {"weight"} : label.rec[f] = ""
  /\ label.statusCode = 200

(* a caption no rule matches, extracted and answered with 200 *)
C21_NoRuleReached ==
  /\ handler = HPolled
  /\ label.text = PlainCaption
  /\ Rendered
  /\ \A f \in RuleFields : label.rec[f] = ""
  /\ label.statusCode = 200

(* a non-empty string of digits *)
IsNumeric(value) ==
  value # "" /\ \A i \in 1..Len(value) : SubSeq(value, i, i) \in Digit

(* tn is what the fixed order gives: first the match of the first of the   *)
(* four patterns that matches, else the first run of 6 or more digits      *)
(* digits, else a numeric placeholder                                      *)
TrackingInOrder(text, first, digits, tn) ==
  IF first # "" THEN tn = first
  ELSE IF digits.ok THEN tn = MatchText(text, digits)
  ELSE IsNumeric(tn)

(* C22: the tracking number of the record is the match of the first of the *)
(* patterns 1Z-prefixed, grouped 20-digit, 12-14 digit run, two letters /   *)
(* nine digits / two letters that matches; failing these the first run of   *)
(* 6 or more digits; failing that a random numeric placeholder.             *)
C22_TrackingChain ==
  (label.stage = "extracted" /\ Parses(handler))
    => TrackingInOrder(label.text, TrackingFrom(label.text, 1),
                       Match(label.text, DigitRunPattern),
                       label.rec.trackingNumber)

(* the markup has a barcode *)
HasBarcode(zpl) == \E i \in 1..Len(zpl) : zpl[i].cmd = "BC"

(* C23: after extraction the tracking number is never empty, and the       *)
(* markup of every processed job has a barcode section.                    *)
C23_BarcodeAlways ==
  /\ (Extracted /\ Parses(handler)) => label.rec.trackingNumber # ""
  /\ Rendered => HasBarcode(label.zpl)

(* C24: the record of the synthetic caption has the tracking number        *)
(* 1Z9999999999999999, Acme Inc in the sender name, Jane Doe in the        *)
(* recipient name, state TX, zip 78701, Ground in the service type and     *)
(* 5 lbs in the weight.                                                    *)
C24_SyntheticCaption ==
  (label.stage = "extracted" /\ Parses(handler) /\ label.text = SyntheticCaption)
    => /\ label.rec.trackingNumber = "1Z9999999999999999"
       /\ Includes(label.rec.senderName, "Acme Inc")
       /\ Includes(label.rec.recipientName, "Jane Doe")
       /\ label.rec.state = "TX"
       /\ label.rec.zip = "78701"
       /\ Includes(label.rec.serviceType, "Ground")
       /\ Includes(label.rec.weight, "5 lbs")

(* the caption has a tracking number by the carrier patterns or as a run   *)
(* of 6 or more digits                                                     *)
HasTrackingMatch(text) ==
  TrackingFrom(text, 1) # "" \/ Match(text, DigitRunPattern).ok

(* the two records of the caption agree on every field but the tracking    *)
(* number                                                                  *)
SameButTracking == \A f \in Fields \ {"trackingNumber"} : label.rec[f] = label.rec2[f]

(* C25: two extractions of the same caption give the same record field for *)
(* field when the caption has a tracking-number match; only a placeholder  *)
(* tracking number may differ between them.                                *)
C25_SameRecordTwice ==
  (label.stage = "extractedTwice" /\ Parses(handler))
    => /\ SameButTracking
       /\ HasTrackingMatch(label.text) => label.rec = label.rec2

(* C25, by the rule each handler has: the two records are the same when    *)
(* the handler's own tracking rule matches the caption, and differ in the  *)
(* tracking number at most.                                                *)
C25_SameByOwnRule ==
  label.stage = "extractedTwice"
    => /\ SameButTracking
       /\ (RuleFinds(handler, "trackingNumber", label.text) \/ handler # HBackoff)
            => label.rec = label.rec2

(* part_002 extracted a caption with a run of digits twice *)
C25_SameByOwnRuleReached ==
  /\ label.stage = "extractedTwice"
  /\ handler = HBackoff
  /\ label.text = DigitsCaption
  /\ label.rec.trackingNumber = "123456"
  /\ label.rec = label.rec2

---------------------------------------------------------------------------
(* Rendering.                                                              *)

(* the sections of the fields a record may lack, and the fields each shows *)
OptionalSections ==
  {"barcode", "sender", "recipient", "service", "weight", "address", "permit"}

FieldsOf(sec) ==
  CASE sec = "barcode" -> {"trackingNumber"}
    [] sec = "sender" -> {"senderName"}
    [] sec = "recipient" -> {"recipientName"}
    [] sec = "service" -> {"serviceType"}
    [] sec = "weight" -> {"weight"}
    [] sec = "address" -> {"addressLine", "city", "state", "zip"}
    [] sec = "permit" -> {"permitNumber", "refNumber"}
    [] sec = "banner" -> {"companyName"}
    [] OTHER -> {}

(* the section sec is in the markup *)
HasSection(zpl, sec) == \E i \in 1..Len(zpl) : zpl[i].sec = sec

(* some field of the section is filled in the record *)
Filled(data, sec) == \E f \in FieldsOf(sec) : data[f] # ""

(* the markup has the section of a field exactly when the field is filled, *)
(* and starts and ends with the markers                                    *)
SectionsAsFilled(data, zpl) ==
  /\ Len(zpl) >= 2
  /\ zpl[1] = StartMarker
  /\ zpl[Len(zpl)] = EndMarker
  /\ \A sec \in OptionalSections : HasSection(zpl, sec) <=> Filled(data, sec)

(* the record rendered by RenderBlanked *)
BlankedRecord == [label.rec EXCEPT ![label.blank] = ""]

(* C26: the markup contains the section of an optional field if and only   *)
(* if the field is not empty; the markup of a record with all fields empty *)
(* has the start and end markers and none of the optional sections.        *)
C26_SectionIffField ==
  /\ (Rendered /\ Parses(handler)) => SectionsAsFilled(label.rec, label.zpl)
  /\ (label.stage = "blanked" /\ Parses(handler))
       => SectionsAsFilled(BlankedRecord, label.zplB)

(* C26, for part_002 and the records it builds, whose tracking number is   *)
(* never empty: the address block, the permit block and the barcode are in *)
(* the markup exactly when one of their fields is filled.                  *)
C26_ParsedSectionIffField ==
  /\ (Rendered /\ handler = HBackoff) => SectionsAsFilled(label.rec, label.zpl)
  /\ (label.stage = "blanked" /\ handler = HBackoff /\ label.blank # "trackingNumber")
       => SectionsAsFilled(BlankedRecord, label.zplB)

(* part_002 rendered a record with an address, a permit and a reference    *)
(* number, and the same record without the reference number                *)
C26_ParsedSectionIffFieldReached ==
  /\ label.stage = "blanked"
  /\ handler = HBackoff
  /\ label.blank = "refNumber"
  /\ HasSection(label.zpl, "permit")
  /\ HasSection(label.zplB, "permit")
  /\ HasSection(label.zplB, "address")

(* the sections of the markups *)
Sections ==
  OptionalSections \cup {"start", "end", "rule", "banner", "description",
                         "processed", "footer"}

(* the lines of a section in a markup, in order: text, data and position *)
SectionLines(zpl, sec) == SelectSeq(zpl, LAMBDA line : line.sec = sec)

(* C27: when two records differ only in one field being empty in one of    *)
(* them, every section of the other fields is in both markups with the     *)
(* same text at the same coordinates.                                      *)
C27_OtherSectionsKept ==
  label.stage = "blanked"
    => \A sec \in Sections :
         label.blank \notin FieldsOf(sec)
           => SectionLines(label.zplB, sec) = SectionLines(label.zpl, sec)

(* the fixed order of the sections *)
SectionOrder ==
  <<"banner", "barcode", "sender", "recipient", "service", "weight", "address",
    "permit", "processed">>

Ordered(sec) == \E k \in 1..Len(SectionOrder) : SectionOrder[k] = sec

PlaceOf(sec) == CHOOSE k \in 1..Len(SectionOrder) : SectionOrder[k] = sec

(* the markup starts with ^XA, ends with ^XZ and has its sections in the   *)
(* fixed order                                                             *)
InFixedOrder(zpl) ==
  /\ Len(zpl) >= 2
  /\ zpl[1] = StartMarker
  /\ zpl[Len(zpl)] = EndMarker
  /\ \A i, j \in 1..Len(zpl) :
       (i < j /\ Ordered(zpl[i].sec) /\ Ordered(zpl[j].sec))
         => PlaceOf(zpl[i].sec) <= PlaceOf(zpl[j].sec)

(* C28: every markup has ^XA first and ^XZ last, and between them the      *)
(* sections that are present in the order banner, barcode, sender,         *)
(* recipient, service, weight, address, permit, processed-at.              *)
C28_FixedOrder == Rendered => InFixedOrder(label.zpl)

(* C28, for process-label.js.new alone *)
C28_PolledFixedOrder == (Rendered /\ handler = HPolled) => InFixedOrder(label.zpl)

(* process-label.js.new rendered barcode, sender, recipient, service and   *)
(* weight                                                                  *)
C28_PolledFixedOrderReached ==
  /\ Rendered
  /\ handler = HPolled
  /\ \A sec \in {"barcode", "sender", "recipient", "service", "weight"} :
       HasSection(label.zpl, sec)

(* C29: the same record rendered twice at the same clock reading gives the *)
(* same markup byte for byte.                                              *)
C29_SameMarkupTwice == label.stage = "renderedTwice" => label.zpl2 = label.zpl

(* C29, for the handlers that draw the barcode from the record *)
C29_ParsedSameMarkupTwice ==
  (label.stage = "renderedTwice" /\ Parses(handler)) => label.zpl2 = label.zpl

(* part_002 rendered a record twice *)
C29_ParsedSameMarkupTwiceReached ==
  /\ label.stage = "renderedTwice"
  /\ handler = HBackoff
  /\ HasBarcode(label.zpl)
  /\ label.zpl2 = label.zpl

(* C30: no line of the markup carries more than 80 characters of field     *)
(* data.                                                                   *)
C30_LinesWithinWidth ==
  Rendered => \A i \in 1..Len(label.zpl) : Len(label.zpl[i].data) <= LineWidth

(* C30, for the description lines of process-label.js and part_002 *)
C30_DescriptionWithinWidth ==
  Rendered => \A i \in 1..Len(label.zpl) :
                label.zpl[i].sec = "description"
                  => Len(label.zpl[i].data) <= LineWidth

(* a description of more than 80 characters printed on two lines *)
C30_DescriptionWithinWidthReached ==
  /\ Rendered
  /\ handler = HBlocking
  /\ Len(label.rec.description) > LineWidth
  /\ Len(SectionLines(label.zpl, "description")) = 3

---------------------------------------------------------------------------
(* C31: pollForResults stops at the first response that is not 202: a 200  *)
(* is returned as the result, any other status is raised as an error, and  *)
(* a request is sent only while every earlier one was answered 202, with   *)
(* the job in progress; so a job seen succeeded or failed is not asked     *)
(* about again.                                                            *)
C31_StopsAtFirstNon202 ==
  /\ []((~IsBlocking(handler) /\ polls > 0 /\ response.statusCode # 202) =>
          /\ Done
          /\ clientResult = IF response.statusCode = 200 THEN "result"
                            ELSE "Failed to check status")
  /\ [][(~IsBlocking(handler) /\ polls' # polls) =>
          /\ polls' = polls + 1
          /\ (polls > 0 => response.statusCode = 202 /\ InProgress(statusData))]_vars

C31_Witness ==
  /\ handler = HPolled
  /\ Done
  /\ polls = 3
  /\ IsStatus(statusData, "failed")
  /\ response.statusCode = 500
  /\ clientResult = "Failed to check status"

(* C32: pollForResults sends at most 15 requests and sleeps at most        *)
(* 15 x 2000 ms; it always ends, with the result, with an error, or with   *)
(* the timed-out error after 15 responses of 202: before the end a step is *)
(* always possible and every step lowers the count of steps left.          *)
C32_ClientPollBounded ==
  /\ [](~IsBlocking(handler) =>
          /\ polls <= MaxRetriesClient
          /\ retries <= MaxRetriesClient
          /\ clientSlept <= MaxRetriesClient * ClientDelayMs
          /\ (~Done => ENABLED NextClient)
          /\ (Done /\ polls > 0 =>
                clientResult \in {"result", "Failed to check status",
                                  ClientTimedOut})
          /\ (clientResult = ClientTimedOut =>
                /\ polls = MaxRetriesClient
                /\ clientSlept = MaxRetriesClient * ClientDelayMs
                /\ response.statusCode = 202))
  /\ [][~IsBlocking(handler) => Measure' < Measure]_vars

C32_Witness ==
  /\ handler = HSimple
  /\ Done
  /\ clientResult = ClientTimedOut
  /\ polls = MaxRetriesClient
  /\ clientSlept = MaxRetriesClient * ClientDelayMs
  /\ IsStatus(statusData, "canceled")

---------------------------------------------------------------------------
(* Vocabulary of the properties of one invocation.                         *)

Answered == call.stage = "answered"

ProviderCalled == call.answer.created \/ call.answer.checked

(* C33: a client-polled handler treats a request as a status check only    *)
(* when it is a GET carrying predictionId; a POST is always an initial     *)
(* request, whatever its query string holds; any other method is answered  *)
(* 405 without a provider call.                                            *)
C33_MethodRouting ==
  (Answered /\ ~IsBlocking(handler)) =>
    /\ (call.answer.route = "check" =>
          call.request.method = "GET" /\ call.request.predictionId # "")
    /\ (call.request.method = "POST" =>
          call.answer.route \in {"initial", "config"} /\ ~call.answer.checked)
    /\ (call.request.method \notin {"GET", "POST"} =>
          call.answer.response.statusCode = 405 /\ ~ProviderCalled)

(* What does hold of the routing: a GET with predictionId is a status      *)
(* check, a POST without predictionId an initial request, and every other  *)
(* request that is not a POST is answered 405 without a provider call.     *)
C33_RoutingButPostWithId ==
  (Answered /\ ~IsBlocking(handler)) =>
    /\ (call.request.method = "GET" /\ call.request.predictionId # "" =>
          call.answer.route \in {"check", "config"})
    /\ (call.request.method = "POST" /\ call.request.predictionId = "" =>
          call.answer.route \in {"initial", "config"} /\ ~call.answer.checked)
    /\ (call.request.method # "POST"
           /\ call.answer.route \notin {"check", "config"} =>
          call.answer.response.statusCode = 405 /\ ~ProviderCalled)

C33_RoutingButPostWithIdReached ==
  /\ Answered
  /\ handler = HPolled
  /\ call.request.method = "PUT"
  /\ call.request.predictionId # ""
  /\ call.answer.response = MethodNotAllowed

---------------------------------------------------------------------------
(* C34: a handler answers 200 only if a status check of the same           *)
(* invocation returned succeeded: not after a submission alone, not after  *)
(* an in-progress status or a failed status check, and not after the       *)
(* budget is used up.                                                      *)
C34_SuccessOnlyAfterSucceeded ==
  /\ [](response.statusCode = 200 =>
          /\ checks > 0
          /\ IsStatus(statusData, "succeeded")
          /\ retries < maxRetries(handler))
  /\ [][(response'.statusCode = 200 /\ response.statusCode # 200) =>
          /\ checks' = checks + 1
          /\ IsStatus(statusData', "succeeded")]_vars

C34_Witness ==
  /\ handler = HBlocking
  /\ Done
  /\ response.statusCode = 200
  /\ sawCheckFailed
  /\ retries = MaxRetriesBlocking - 1
  /\ checks = MaxRetriesBlocking

(* C35: a status other than succeeded and failed is in-progress: the       *)
(* blocking loop waits and polls again, checkPredictionStatus answers 202, *)
(* and a blocking handler whose last status check saw a cancelled job ends *)
(* with the timed-out response once the budget is used up.                 *)
C35_OtherStatusInProgress ==
  /\ [][(checks' = checks + 1 /\ statusData'.kind = "ok"
           /\ statusData'.status \notin {"succeeded", "failed"}) =>
          IF IsBlocking(handler)
            THEN /\ pc' = "sleep"
                 /\ timer' = BaseDelayMs + retries * delayGrowthMs(handler)
                 /\ response' = response
            ELSE /\ response'.statusCode = 202
                 /\ response'.status = statusData'.status
                 /\ pc' = "sleep"]_vars
  /\ []((IsBlocking(handler) /\ Done /\ IsStatus(statusData, "canceled")) =>
          /\ Exhausted
          /\ response.statusCode = 500
          /\ response.error = TimedOutError)

C35_Witness ==
  /\ handler = HBlocking
  /\ Done
  /\ IsStatus(statusData, "canceled")
  /\ checks = MaxRetriesBlocking
  /\ response.error = TimedOutError

(* C36: every invocation of a handler ends with a response, never with a   *)
(* thrown error, and the status code of the response is one of 200, 202,   *)
(* 400, 405 and 500.                                                       *)
C36_AlwaysAResponse ==
  Answered =>
    /\ call.answer.response # NoResponse
    /\ call.answer.response.statusCode \in {200, 202, 400, 405, 500}

C36_Witness ==
  /\ Answered
  /\ handler = HPolled
  /\ call.answer.route = "check"
  /\ call.answer.checked
  /\ call.answer.response = ErrorResponse(500, "Error checking prediction", "throw")

(* C37: with every status check in-progress, the total wait of a blocking  *)
(* handler stays below the 26 s the platform gives the function.           *)
C37_BackoffWithinTimeout ==
  (IsBlocking(handler) /\ allInProgress) => slept < FunctionTimeoutMs

(* What does hold: the total wait of process-label.js is at most          *)
(* 10 x 1000 ms, below the limit.                                          *)
C37_BlockingWithinTimeout ==
  (handler = HBlocking /\ allInProgress) =>
    /\ slept <= MaxRetriesBlocking * BaseDelayMs
    /\ MaxRetriesBlocking * BaseDelayMs < FunctionTimeoutMs

C37_BlockingWithinTimeoutReached ==
  /\ handler = HBlocking
  /\ allInProgress
  /\ Exhausted
  /\ slept = MaxRetriesBlocking * BaseDelayMs

(* a status check of the blocking loop that ends in the catch block *)
ThrewInLoop(h, r) ==
  \/ r.kind \in {"throw", "badjson"}
  \/ r.kind = "nonok" /\ h = HBackoff /\ ~r.textOk

(* a run of thrown status checks uses the budget up without any wait *)
ThrownRunEndsUnslept ==
  (IsBlocking(handler) /\ allThrown /\ PollEnded) =>
    /\ Exhausted
    /\ checks = maxRetries(handler)
    /\ slept = 0
    /\ response.error = TimedOutError

(* C38: in the blocking loop the check after a thrown status check is      *)
(* issued without a wait, while a wait precedes the check after a non-2xx  *)
(* response or an in-progress status; a run of thrown checks uses the      *)
(* budget up with no wait at all.                                          *)
C38_SleepUnlessThrown ==
  /\ [][(IsBlocking(handler) /\ checks' = checks + 1) =>
          /\ (statusData'.kind \in {"throw", "badjson"} =>
                pc' # "sleep" /\ timer' = 0 /\ retries' = retries + 1)
          /\ (statusData'.kind = "nonok" \/ InProgress(statusData') =>
                pc' = "sleep" /\ timer' > 0)]_vars
  /\ []ThrownRunEndsUnslept

(* C38 (amended): a status check that ends in the catch block (transport  *)
(* error, unparsable body or, in part_002, a non-2xx response whose body   *)
(* cannot be read) is followed by the next check without a wait; a non-2xx *)
(* response that was read and an in-progress status are followed by their  *)
(* wait; a run of thrown checks uses the budget up with no wait at all.    *)
C38_SleepUnlessCaught ==
  /\ [][(IsBlocking(handler) /\ checks' = checks + 1) =>
          /\ (ThrewInLoop(handler, statusData') =>
                pc' # "sleep" /\ timer' = 0 /\ retries' = retries + 1
                  /\ slept' = slept)
          /\ (~ThrewInLoop(handler, statusData')
                /\ (statusData'.kind = "nonok" \/ InProgress(statusData')) =>
                pc' = "sleep" /\ retries' = retries
                  /\ timer' = IF statusData'.kind = "nonok"
                                THEN errorWait(handler)
                                ELSE waitTime(handler, retries))]_vars
  /\ []ThrownRunEndsUnslept

C38_Witness ==
  /\ handler = HBackoff
  /\ allThrown
  /\ Exhausted
  /\ checks = MaxRetriesBackoff
  /\ slept = 0
  /\ statusData.kind = "nonok"

(* the keys held under the names of a lookup *)
ValuesOf(held) == {held[n] : n \in DOMAIN held} \ {""}

(* C39: the credential sent to the provider is the value of the            *)
(* environment whenever the environment holds one; a key of the request    *)
(* is sent only when the environment holds none, and the header goes       *)
(* before the query parameter.                                             *)
C39_EnvKeyFirst ==
  Answered =>
    /\ (ProviderCalled <=> call.answer.sentKey # "")
    /\ (ProviderCalled =>
          /\ call.answer.sentKey \in ValuesOf(call.request.env)
                                       \cup ValuesOf(call.request.headers)
                                       \cup ValuesOf(call.request.query)
          /\ (ValuesOf(call.request.env) # {} =>
                call.answer.sentKey \in ValuesOf(call.request.env))
          /\ (call.answer.sentKey \in ValuesOf(call.request.query) =>
                ValuesOf(call.request.headers) = {}))

C39_Witness ==
  /\ Answered
  /\ handler = HBlocking
  /\ ValuesOf(call.request.env) = {}
  /\ call.request.headers["x-replicate-api-key"] # ""
  /\ call.request.query["api_key"] # ""
  /\ call.answer.created
  /\ call.answer.checked
  /\ call.answer.sentKey = KeyAt("x-replicate-api-key")

====
